---- MODULE Spec2Model ----
(***************************************************************************)
(* Model of the Orbitron registry (orbitron_main/orbitron.py), of the      *)
(* satellite / ground station / communication services it owns, and of the *)
(* threaded TCP server (orbisat/tcp/TcpServerABC.py,                       *)
(* tcp/orbitron_tcp_server.py) that dispatches JSON requests to it.        *)
(*                                                                         *)
(* Two specifications share the registry operators:                        *)
(*   Spec     one request at a time is dispatched to the registry and      *)
(*            answered (the registry seen through handle_request_message); *)
(*   SpecSrv  the listener thread and the handler threads of the server,   *)
(*            interleaved; FairSrv adds the scheduler's fairness.          *)
(*                                                                         *)
(* Python values: an optional value is <<>> (None) or <<v>>; a dict whose  *)
(* insertion order matters is a sequence of [k, v] entries; an instant is  *)
(* an integer number of ticks, SubSec ticks to the second.                 *)
(***************************************************************************)
EXTENDS Integers, Sequences, FiniteSets, TLC

(***************************************************************************)
(* Bounds of the model.                                                    *)
(***************************************************************************)
SubSec == 2
MaxClock == 3
MaxHorizon == 3
MaxRequests == 6
DefaultTimePrediction == 2
MaxFrames == 3
OrbitPeriod == 7
MinuteSec == 4
MaxPass == 6
MaxCommRequests == 7
MaxSessionRequests == 8
MaxScan == 3
MaxTleRequests == 6
MaxCatalogRequests == 6

StationNames == {"Samara", "Moscow"}
NoradIds == {57173, 24793}
Frequencies == {<<>>, <<437>>}
Connections == {"c1", "c2"}

None == <<>>
Some(v) == <<v>>
IsNone(x) == x = <<>>
Val(x) == x[1]

(***************************************************************************)
(* Python dict with insertion order: a sequence of entries [k, v].         *)
(***************************************************************************)
DictHas(d, key) == \E i \in 1..Len(d) : d[i].k = key
DictGet(d, key) == d[CHOOSE i \in 1..Len(d) : d[i].k = key].v
DictSet(d, key, val) ==
    IF DictHas(d, key)
    THEN [i \in 1..Len(d) |-> IF d[i].k = key THEN [k |-> key, v |-> val] ELSE d[i]]
    ELSE Append(d, [k |-> key, v |-> val])
DictKeys(d) == {d[i].k : i \in 1..Len(d)}

\* datetime.replace(microsecond=0)
TruncSecond(t) == t - (t % SubSec)
\* datetime.replace(second=0): an instant without its seconds, a minute
\* being MinuteSec seconds
TruncMinute(t) == t - (t % (MinuteSec * SubSec))
\* datetime + timedelta(seconds=s)
PlusSeconds(t, s) == t + s * SubSec

(***************************************************************************)
(* ResponseType (TcpServerABC.py)                                          *)
(***************************************************************************)
NONE == 0
CONFIGURE == 1
PREDICT == 2
TLE_UPDATE == 3
SYNC == 4
RADAR == 5
GET_DATA == 6
ERROR == 7

(***************************************************************************)
(* GroundStation (orbitron_services/ground_station.py)                     *)
(***************************************************************************)
\* math.radians, in milliradians (degrees are whole numbers in the model)
Radians(deg) == (deg * 3142) \div 180

GroundStation(longitude, latitude, altitude, elevation_min, name) ==
    [name |-> name,
     lam |-> Radians(longitude),
     phi |-> Radians(latitude),
     alt |-> altitude,
     elevation_min |-> Radians(elevation_min)]

(***************************************************************************)
(* Satellite (orbitron_services/satellite.py).  orbital, pos_ecef,         *)
(* tle_file_dt and tle_file_name are attributes that exist only once they  *)
(* have been assigned: orbital = None and has_pos = FALSE stand for the    *)
(* missing attribute.                                                      *)
(***************************************************************************)
Satellite(norad_id, uplink, downlink) ==
    [norad_id |-> norad_id,
     uplink_freq |-> uplink,
     downlink_freq |-> downlink,
     line |-> None,
     tle_file_dt |-> None,
     tle_file_name |-> None,
     orbital |-> None,
     has_pos |-> FALSE,
     pos_ecef |-> <<>>]

\* A TLE text: nlines lines, lines that match the TLE patterns or not,
\* the NORAD id written in line 2 and the epoch day written in line 1.
TleStrs ==
    { [nlines |-> 2, fmt |-> TRUE, norad |-> 57173, epoch |-> 1],
      [nlines |-> 2, fmt |-> FALSE, norad |-> 57173, epoch |-> 2],
      [nlines |-> 1, fmt |-> FALSE, norad |-> 57173, epoch |-> 1] }

\* _save_tle_file: the cache file name and the write of the two lines
TleFileName(tle) == <<tle.norad, tle.epoch>>

Ok(w) == [w |-> w, err |-> "", ret |-> <<>>]
Raise(w, e) == [w |-> w, err |-> e, ret |-> <<>>]
Return(w, v) == [w |-> w, err |-> "", ret |-> v]

\* Satellite.setup_tle_by_str on satellite sat with the cache directory
\* files; the result's w is the pair [sat, files]
setup_tle_by_str(sat, files, tle) ==
    IF tle.nlines < 2
    THEN Raise([sat |-> sat, files |-> files], "TLEDataError")
    ELSE LET saved == [sat EXCEPT !.line = Some(tle),
                                  !.tle_file_dt = Some(tle.epoch),
                                  !.tle_file_name = Some(TleFileName(tle))]
             written == (TleFileName(tle) :> tle) @@ files
         IN  IF ~tle.fmt
             THEN Raise([sat |-> saved, files |-> written], "TLEDataError")
             ELSE Ok([sat |-> [saved EXCEPT !.orbital = Some(tle)],
                      files |-> written])

\* Satellite.setup_tle_by_file: the file file_name of the cache directory
\* is read; a missing file is only logged
setup_tle_by_file(sat, files, file_name) ==
    IF file_name \notin DOMAIN files
    THEN Ok([sat |-> sat, files |-> files])
    ELSE IF files[file_name].nlines < 2
    THEN Raise([sat |-> sat, files |-> files], "TLEDataError")
    ELSE LET tle == files[file_name]
             saved == [sat EXCEPT !.line = Some(tle),
                                  !.tle_file_dt = Some(tle.epoch),
                                  !.tle_file_name = Some(TleFileName(tle))]
             written == (TleFileName(tle) :> tle) @@ files
         IN  IF ~tle.fmt
             THEN Raise([sat |-> saved, files |-> written], "TLEDataError")
             ELSE Ok([sat |-> [saved EXCEPT !.orbital = Some(tle)],
                      files |-> written])

\* What SpaceTrack answers to tle_latest: the configuration of the account
\* is missing (auth), the download fails (down), the text is empty, or a
\* TLE text.
SpaceTrackAnswers ==
    { [kind |-> "auth"], [kind |-> "down"], [kind |-> "empty"] }
    \cup { [kind |-> "tle", tle |-> t] :
             t \in { [nlines |-> 2, fmt |-> TRUE, norad |-> 57173, epoch |-> 3],
                     [nlines |-> 2, fmt |-> FALSE, norad |-> 57173, epoch |-> 3],
                     [nlines |-> 1, fmt |-> FALSE, norad |-> 57173, epoch |-> 3] } }

\* Satellite.setup_tle_by_spacetrack, SpaceTrack answering answer; a text
\* of one line makes the unpacking raise ValueError, which nothing catches
setup_tle_by_spacetrack(sat, files, answer) ==
    IF answer.kind = "auth"
    THEN Raise([sat |-> sat, files |-> files], "SpaceTrackAuthError")
    ELSE IF answer.kind \in {"down", "empty"}
    THEN Raise([sat |-> sat, files |-> files], "TLEDataError")
    ELSE IF answer.tle.nlines < 2
    THEN Raise([sat |-> sat, files |-> files], "ValueError")
    ELSE LET tle == answer.tle
             saved == [sat EXCEPT !.line = Some(tle),
                                  !.tle_file_dt = Some(tle.epoch),
                                  !.tle_file_name = Some(TleFileName(tle))]
             written == (TleFileName(tle) :> tle) @@ files
         IN  IF ~tle.fmt
             THEN Raise([sat |-> saved, files |-> written], "TLEDataError")
             ELSE Ok([sat |-> [saved EXCEPT !.orbital = Some(tle)],
                      files |-> written])

\* the name update_tle_by_spacetrack renames the current TLE file to
OldTleFileName(name) == <<name[1], name[2], "old">>

\* the directory without the file name
Removed(files, name) == [f \in DOMAIN files \ {name} |-> files[f]]

\* os.rename(src, dst), src existing
Renamed(files, src, dst) == (dst :> files[src]) @@ Removed(files, src)

\* Satellite.update_tle_by_spacetrack: rename the current file, download,
\* remove the renamed file; tle_file_name is an attribute only once a TLE
\* has been saved
update_tle_by_spacetrack(sat, files, answer) ==
    IF IsNone(sat.tle_file_name)
    THEN Raise([sat |-> sat, files |-> files], "AttributeError")
    ELSE LET name == Val(sat.tle_file_name)
             old == OldTleFileName(name)
             moved == IF name \in DOMAIN files THEN Renamed(files, name, old)
                      ELSE files
             r == setup_tle_by_spacetrack(sat, moved, answer)
         IN  IF r.err # ""
             THEN r
             ELSE Ok([sat |-> r.w.sat, files |-> Removed(r.w.files, old)])

\* The ECEF position of the satellite of TLE tle at instant t, as a point
\* of its ground track (whole seconds along the track, one revolution
\* taking OrbitPeriod seconds).
SatPosition(tle, t) == (tle.epoch + (t \div SubSec)) % OrbitPeriod

\* the instants and positions predict_cm stores, first to last
RECURSIVE Trajectory(_, _, _, _)
Trajectory(tle, start_dt, step, n) ==
    IF n <= 1
    THEN << [k |-> start_dt, v |-> SatPosition(tle, start_dt)] >>
    ELSE LET dt == PlusSeconds(start_dt, (n - 1) * step)
         IN  Append(Trajectory(tle, start_dt, step, n - 1),
                    [k |-> dt, v |-> SatPosition(tle, dt)])

\* datetime.utcnow() of the default argument of predict_cm, taken once when
\* the module is imported
ImportTime == 0

\* predict_cm that adds the new trajectory to the one it has
predict_cm_extend(sat, start_dt, time_prediction, step_prediction) ==
    IF IsNone(sat.orbital)
    THEN Raise(sat, "AttributeError")
    ELSE Ok([sat EXCEPT !.has_pos = TRUE,
                        !.pos_ecef = @ \o Trajectory(Val(sat.orbital), start_dt,
                                                     step_prediction,
                                                     time_prediction \div step_prediction)])

\* Satellite.predict_cm; the result's w is the satellite
predict_cm(sat, start_dt, time_prediction, step_prediction) ==
    IF IsNone(sat.orbital)
    THEN Raise(sat, "AttributeError")
    ELSE Ok([sat EXCEPT !.has_pos = TRUE,
                        !.pos_ecef = Trajectory(Val(sat.orbital), start_dt,
                                                step_prediction,
                                                time_prediction \div step_prediction)])

(***************************************************************************)
(* SatelliteStationComm (orbisat_services/communication.py).  The          *)
(* geometry is kept on the ground track: a position is a whole number of   *)
(* seconds along the track, the station is overflown at second 3.           *)
(***************************************************************************)
Abs(x) == IF x < 0 THEN 0 - x ELSE x

\* _calculate_azimuth_elevation, [deg]
Elevation(station, pos) == 60 - 30 * Abs(pos - 3)
Azimuth(station, pos) == (pos * 100) % 360

\* _calculate_visibility: dot(r1, r2) - |r1| * R_E * sin(elevation_min) > 0
_calculate_visibility(station, pos) ==
    Radians(Elevation(station, pos)) > station.elevation_min

\* distance between the station and the satellite
Range(station, pos) == 5 + 10 * Abs(pos - 3)

\* _calculate_uplink_downlink: the Doppler shift of the range change v,
\* None when the carrier frequency is None or 0
_calculate_uplink_downlink(sat, station, pos1, pos2) ==
    LET v == Range(station, pos2) - Range(station, pos1)
    IN  [uplink |-> IF ~IsNone(sat.uplink_freq) /\ Val(sat.uplink_freq) # 0
                    THEN Some(Val(sat.uplink_freq) + v) ELSE None,
         downlink |-> IF ~IsNone(sat.downlink_freq) /\ Val(sat.downlink_freq) # 0
                      THEN Some(Val(sat.downlink_freq) - v) ELSE None]

CommParams(pos, elevation, azimuth, visibility, uplink, downlink) ==
    [pos_sat_ecef |-> pos, elevation |-> elevation, azimuth |-> azimuth,
     visibility |-> visibility, uplink |-> uplink, downlink |-> downlink]

\* the loop of calculate_comm_for_predicted_period over the trajectory
\* entries traj[i..], prev being the position of the entry before
RECURSIVE CommLoop(_, _, _, _, _, _)
CommLoop(sat, station, traj, i, prev, comm_data) ==
    IF i > Len(traj)
    THEN comm_data
    ELSE LET pos == traj[i].v
             f == _calculate_uplink_downlink(sat, station, prev, pos)
         IN  CommLoop(sat, station, traj, i + 1, pos,
                      DictSet(comm_data, traj[i].k,
                              CommParams(pos, Elevation(station, pos),
                                         Azimuth(station, pos),
                                         _calculate_visibility(station, pos),
                                         f.uplink, f.downlink)))

\* SatelliteStationComm.calculate_comm_for_predicted_period on the
\* satellite sat the Comm points to; the result's w is
\* [sat, comm_data]: the first trajectory entry is popped off the
\* satellite's pos_ecef
calculate_comm_for_predicted_period(sat, station, comm_data) ==
    LET p == IF sat.has_pos THEN Ok(sat)
             ELSE predict_cm(sat, ImportTime, DefaultTimePrediction, 1)
    IN  IF p.err # ""
        THEN Raise([sat |-> sat, comm_data |-> comm_data], p.err)
        ELSE IF Len(p.w.pos_ecef) = 0
        THEN Raise([sat |-> p.w, comm_data |-> comm_data], "IndexError")
        ELSE LET prev == p.w.pos_ecef[1].v
                 rest == Tail(p.w.pos_ecef)
             IN  Ok([sat |-> [p.w EXCEPT !.pos_ecef = rest],
                     comm_data |-> CommLoop(p.w, station, rest, 1, prev,
                                            comm_data)])

\* the loop of _calculate_comm_session_times_for_predicted_period over the
\* trajectory entries traj[i..]; closed says that end_comm_session has been
\* assigned
RECURSIVE SessionTimesLoop(_, _, _, _, _, _, _)
SessionTimesLoop(station, traj, i, comm_flag, start, closed, times) ==
    IF i > Len(traj)
    THEN [comm_flag |-> comm_flag, start |-> start, closed |-> closed,
          times |-> times]
    ELSE LET visibility == _calculate_visibility(station, traj[i].v)
         IN  IF visibility /\ ~comm_flag
             THEN SessionTimesLoop(station, traj, i + 1, TRUE, traj[i].k,
                                   closed, times)
             ELSE IF ~visibility /\ comm_flag
             THEN SessionTimesLoop(station, traj, i + 1, FALSE, start, TRUE,
                                   Append(times, <<start, traj[i].k>>))
             ELSE SessionTimesLoop(station, traj, i + 1, comm_flag, start,
                                   closed, times)

\* SatelliteStationComm._calculate_comm_session_times_for_predicted_period;
\* the result's w is the satellite, ret the list of (start, end); the test
\* "not end_comm_session" reads a local that is unassigned while no session
\* has been closed
_calculate_comm_session_times_for_predicted_period(sat, station) ==
    LET p == IF sat.has_pos THEN Ok(sat)
             ELSE predict_cm(sat, ImportTime, DefaultTimePrediction, 1)
    IN  IF p.err # ""
        THEN Raise(sat, p.err)
        ELSE LET r == SessionTimesLoop(station, p.w.pos_ecef, 1, FALSE, 0,
                                       FALSE, <<>>)
             IN  IF r.comm_flag /\ ~r.closed
                 THEN Raise(p.w, "UnboundLocalError")
                 ELSE IF r.comm_flag
                 THEN Return(p.w, Append(r.times,
                          <<r.start, p.w.pos_ecef[Len(p.w.pos_ecef)].k>>))
                 ELSE Return(p.w, r.times)

\* calculate_sun_position (orbisat/orbisat_services/sun_model.py): the Sun
\* moves with the whole seconds of the instant
calculate_sun_position(dt, station) ==
    [elevation |-> 20 - (dt \div SubSec), azimuth |-> ((dt \div SubSec) * 15) % 360]

\* the scan of define_session_params over the samples one[j..] of a
\* session, in the order comm_data holds them
RECURSIVE MaxLoop(_, _, _, _, _, _, _)
MaxLoop(one, j, azimuth_prev, max_elevation, max_azimuth, max_session_dt, flag) ==
    IF j > Len(one)
    THEN [max_elevation |-> max_elevation, max_azimuth |-> max_azimuth,
          max_session_dt |-> max_session_dt, flag |-> flag]
    ELSE LET azimuth == one[j].v.azimuth
             elevation == one[j].v.elevation
             crossed == \/ flag
                        \/ /\ ~IsNone(azimuth_prev)
                           /\ Val(azimuth_prev) # 0
                           /\ Abs(Val(azimuth_prev) - azimuth) > 330
         IN  IF elevation > max_elevation
             THEN MaxLoop(one, j + 1, Some(azimuth), elevation, azimuth,
                          Some(one[j].k), crossed)
             ELSE MaxLoop(one, j + 1, Some(azimuth), max_elevation, max_azimuth,
                          max_session_dt, crossed)

SessionParams(start_dt, start, start_sun, max_dt, max_elevation, max_azimuth, max_sun, end_dt, end, end_sun, flag) ==
    [start_session_dt |-> start_dt,
     start_elevation |-> start.elevation, start_azimuth |-> start.azimuth,
     start_sun_elevation |-> start_sun.elevation,
     start_sun_azimuth |-> start_sun.azimuth,
     max_session_dt |-> max_dt,
     max_elevation |-> max_elevation, max_azimuth |-> max_azimuth,
     max_sun_elevation |-> max_sun.elevation,
     max_sun_azimuth |-> max_sun.azimuth,
     end_session_dt |-> end_dt,
     end_elevation |-> end.elevation, end_azimuth |-> end.azimuth,
     end_sun_elevation |-> end_sun.elevation,
     end_sun_azimuth |-> end_sun.azimuth,
     zero_crossing_azimuth_flag |-> flag]

\* the loop of define_session_params over session_times[i..]; a session
\* stored before an exception stays stored
RECURSIVE SessionsLoop(_, _, _, _, _)
SessionsLoop(station, comm_data, session_times, i, session_params) ==
    IF i > Len(session_times)
    THEN [session_params |-> session_params, err |-> ""]
    ELSE LET start_session == session_times[i][1]
             end_session == session_times[i][2]
             InSession(e) == start_session <= e.k /\ e.k <= end_session
             one == SelectSeq(comm_data, InSession)
             m == MaxLoop(one, 1, None, -90, 0, None, FALSE)
         IN  IF Len(one) = 0
             THEN [session_params |-> session_params, err |-> "IndexError"]
             ELSE IF IsNone(m.max_session_dt)
             THEN [session_params |-> session_params, err |-> "UnboundLocalError"]
             ELSE SessionsLoop(station, comm_data, session_times, i + 1,
                      DictSet(session_params, TruncMinute(start_session),
                          SessionParams(start_session, one[1].v,
                              calculate_sun_position(start_session, station),
                              Val(m.max_session_dt), m.max_elevation, m.max_azimuth,
                              calculate_sun_position(Val(m.max_session_dt), station),
                              end_session, one[Len(one)].v,
                              calculate_sun_position(end_session, station),
                              m.flag)))

\* SatelliteStationComm.define_session_params on the satellite sat the Comm
\* points to; the result's w is [sat, comm_data, session_params]
define_session_params(sat, station, comm_data, session_params) ==
    LET c == IF Len(comm_data) = 0
             THEN calculate_comm_for_predicted_period(sat, station, comm_data)
             ELSE Ok([sat |-> sat, comm_data |-> comm_data])
        t == _calculate_comm_session_times_for_predicted_period(c.w.sat, station)
        l == SessionsLoop(station, c.w.comm_data, t.ret, 1, session_params)
    IN  IF c.err # ""
        THEN Raise([sat |-> c.w.sat, comm_data |-> c.w.comm_data,
                    session_params |-> session_params], c.err)
        ELSE IF t.err # ""
        THEN Raise([sat |-> t.w, comm_data |-> c.w.comm_data,
                    session_params |-> session_params], t.err)
        ELSE [w |-> [sat |-> t.w, comm_data |-> c.w.comm_data,
                     session_params |-> l.session_params],
              err |-> l.err, ret |-> <<>>]

\* sorted() of a set of instants
RECURSIVE Sorted(_)
Sorted(S) ==
    IF S = {} THEN <<>>
    ELSE LET m == CHOOSE x \in S : \A y \in S : x <= y
         IN  <<m>> \o Sorted(S \ {m})

\* the loop of recalculate_uplink_downlink over dts[i..]; what has been
\* recalculated before an exception stays recalculated
RECURSIVE RecalculateLoop(_, _, _, _, _, _)
RecalculateLoop(sat, station, dts, i, prev_dt, comm_data) ==
    IF i > Len(dts)
    THEN Ok(comm_data)
    ELSE IF ~DictHas(comm_data, dts[i])
    THEN Raise(comm_data, "KeyError")
    ELSE LET f == _calculate_uplink_downlink(sat, station,
                      DictGet(sat.pos_ecef, prev_dt),
                      DictGet(sat.pos_ecef, dts[i]))
         IN  RecalculateLoop(sat, station, dts, i + 1, dts[i],
                 DictSet(comm_data, dts[i],
                         [DictGet(comm_data, dts[i]) EXCEPT
                             !.uplink = f.uplink, !.downlink = f.downlink]))

\* SatelliteStationComm.recalculate_uplink_downlink on the satellite sat
\* the Comm points to; the result's w is comm_data
recalculate_uplink_downlink(sat, station, comm_data, start_dt) ==
    IF ~sat.has_pos
    THEN Ok(comm_data)
    ELSE LET dts_for_recalcualtion ==
                 Sorted({dt \in DictKeys(sat.pos_ecef) : dt >= start_dt})
         IN  IF Len(dts_for_recalcualtion) = 0
             THEN Raise(comm_data, "IndexError")
             ELSE RecalculateLoop(sat, station, Tail(dts_for_recalcualtion), 1,
                                  Head(dts_for_recalcualtion), comm_data)

\* SatelliteStationComm.__init__; alias = TRUE while self.satellite is the
\* object registered in Orbitron.satellites, own holds the object once the
\* registry has replaced it
SatelliteStationComm ==
    [alias |-> TRUE, own |-> Satellite(0, None, None),
     session_params |-> <<>>, comm_data |-> <<>>]

(***************************************************************************)
(* The sample of one satellite position from ECEF coordinates, as          *)
(* _calculate_visibility and _calculate_azimuth_elevation compute it.      *)
(* Lengths are whole kilometres.  An angle between -90 and 90 degrees is   *)
(* carried as its sine, a fraction [num, den] with den > 0: asin and       *)
(* math.degrees are increasing, so angles compare as their sines do.  The  *)
(* track geometry above is this one for a station whose elevation_min is   *)
(* 0, where the sign of the dot product alone decides the visibility.      *)
(***************************************************************************)
\* GroundStation._R_ECV, GroundStation._R_POL and SatelliteStationComm._R_E
_R_ECV == 6378
_R_POL == 6357
_R_E == 6371

\* GroundStation._transform_geodetic_to_ecef of a station on the equator at
\* longitude 0 (N = _R_ECV) or at the north pole ((1 - _F)^2 * N = _R_POL);
\* the altitude is in metres
_transform_geodetic_to_ecef(longitude, latitude, altitude) ==
    IF latitude = 0
    THEN [x |-> _R_ECV + (altitude \div 1000), y |-> 0, z |-> 0]
    ELSE [x |-> 0, y |-> 0, z |-> _R_POL + (altitude \div 1000)]

\* GroundStation.__init__ with the ECEF coordinates of StationPosition
GroundStationEcef(longitude, latitude, altitude, elevation_min, name) ==
    [pos |-> _transform_geodetic_to_ecef(longitude, latitude, altitude),
     elevation_min |-> Radians(elevation_min), name |-> name]

\* math.sin of the radians of 0, 30, -30, 90 and -90 degrees
Sin(rad) ==
    IF rad = Radians(0) THEN [num |-> 0, den |-> 1]
    ELSE IF rad = Radians(30) THEN [num |-> 1, den |-> 2]
    ELSE IF rad = Radians(-30) THEN [num |-> -1, den |-> 2]
    ELSE IF rad = Radians(90) THEN [num |-> 1, den |-> 1]
    ELSE [num |-> -1, den |-> 1]

\* r1[0] * r2[0] + r1[1] * r2[1] + r1[2] * r2[2]
Dot(a, b) == a.x * b.x + a.y * b.y + a.z * b.z

\* the largest k in lo..hi with k * k <= n
RECURSIVE SqrtBetween(_, _, _)
SqrtBetween(n, lo, hi) ==
    IF lo >= hi THEN lo
    ELSE LET mid == (lo + hi + 1) \div 2
         IN  IF mid * mid <= n THEN SqrtBetween(n, mid, hi)
             ELSE SqrtBetween(n, lo, mid - 1)

\* n ** 0.5, n being the square of a length
Sqrt(n) == SqrtBetween(n, 0, 2 * _R_ECV)

\* (r[0] ** 2 + r[1] ** 2 + r[2] ** 2) ** 0.5
Mod(r) == Sqrt(Dot(r, r))

\* xyz_ecef_sat - station.pos
FromStation(station, xyz_ecef_sat) ==
    [x |-> xyz_ecef_sat.x - station.pos.x,
     y |-> xyz_ecef_sat.y - station.pos.y,
     z |-> xyz_ecef_sat.z - station.pos.z]

\* _calculate_visibility on ECEF coordinates:
\* dot_r1r2 - mod_r1 * _R_E * sin(elevation_min) > 0
_calculate_visibility_ecef(station, xyz_ecef_sat) ==
    LET r1 == FromStation(station, xyz_ecef_sat)
    IN  Dot(r1, station.pos) * Sin(station.elevation_min).den
            - Mod(r1) * _R_E * Sin(station.elevation_min).num > 0

\* the elevation of _calculate_azimuth_elevation on ECEF coordinates:
\* sin_El = dot_r1r2 / (mod_r1 * mod_r2)
_calculate_elevation_ecef(station, xyz_ecef_sat) ==
    LET r1 == FromStation(station, xyz_ecef_sat)
    IN  [num |-> Dot(r1, station.pos), den |-> Mod(r1) * Mod(station.pos)]

\* the angle a is at least the angle b
AtLeast(a, b) == a.num * b.den >= b.num * a.den

(***************************************************************************)
(* Orbitron (orbitron_main/orbitron.py).  The world w is the registry      *)
(* (stations, satellites, comms) and the TLE cache directory (files).      *)
(***************************************************************************)
EmptyWorld ==
    [stations |-> <<>>, satellites |-> <<>>, comms |-> <<>>, files |-> <<>>]

\* the Satellite object comms[station_name][norad_id].satellite points to
CommSatellite(w, station_name, norad_id) ==
    LET comm == w.comms[station_name][norad_id]
    IN  IF comm.alias THEN w.satellites[station_name][norad_id] ELSE comm.own

\* the world after the Comm's satellite object became sat and its
\* comm_data became comm_data
PutComm(w, station_name, norad_id, sat, comm_data) ==
    LET comm == w.comms[station_name][norad_id]
    IN  IF comm.alias
        THEN [w EXCEPT !.satellites[station_name][norad_id] = sat,
                       !.comms[station_name][norad_id].comm_data = comm_data]
        ELSE [w EXCEPT !.comms[station_name][norad_id].own = sat,
                       !.comms[station_name][norad_id].comm_data = comm_data]

_check_ground_station_setup(w, station_name) ==
    IF station_name \notin DOMAIN w.stations
    THEN "NewOrbitronSetupError" ELSE ""

_check_satellite_setup_for_ground_station(w, station_name, norad_id) ==
    IF _check_ground_station_setup(w, station_name) # ""
    THEN "NewOrbitronSetupError"
    ELSE IF norad_id \notin DOMAIN w.satellites[station_name]
    THEN "NewOrbitronSetupError" ELSE ""

_check_comm_setup_for_satellite_with_ground_station(w, station_name, norad_id) ==
    IF _check_satellite_setup_for_ground_station(w, station_name, norad_id) # ""
    THEN "NewOrbitronSetupError"
    ELSE IF norad_id \notin DOMAIN w.comms[station_name]
    THEN "NewOrbitronSetupError" ELSE ""

\* _check_comm_prediction_data whose except clause re-raises
_check_comm_prediction_data_reraise(w, station_name, norad_id) ==
    IF _check_comm_setup_for_satellite_with_ground_station(w, station_name, norad_id) # ""
    THEN "NewOrbitronSetupError"
    ELSE IF Len(w.comms[station_name][norad_id].comm_data) = 0
    THEN "NewOrbitronDataError" ELSE ""

\* _check_comm_prediction_data: the NewOrbitronDataError raised for an
\* empty comm_data is caught and logged inside the check, not re-raised
_check_comm_prediction_data(w, station_name, norad_id) ==
    _check_comm_setup_for_satellite_with_ground_station(w, station_name, norad_id)

\* what _check_comm_prediction_data writes to the log
LogOfCheckPrediction(w, station_name, norad_id) ==
    IF _check_comm_setup_for_satellite_with_ground_station(w, station_name, norad_id) # ""
    THEN {"NewOrbitronSetupError"}
    ELSE IF Len(w.comms[station_name][norad_id].comm_data) = 0
    THEN {"NewOrbitronDataError"} ELSE {}

\* setup_ground_station that keeps the satellites and the comms of a
\* name that is registered already
setup_ground_station_keeping(w, longitude, latitude, altitude, min_elevation, station_name) ==
    Ok([w EXCEPT
          !.stations = (station_name :> GroundStation(longitude, latitude, altitude,
                                                      min_elevation, station_name)) @@ @,
          !.satellites = @ @@ (station_name :> <<>>),
          !.comms = @ @@ (station_name :> <<>>)])

setup_ground_station(w, longitude, latitude, altitude, min_elevation, station_name) ==
    Ok([w EXCEPT
          !.stations = (station_name :> GroundStation(longitude, latitude, altitude,
                                                      min_elevation, station_name)) @@ @,
          !.satellites = (station_name :> <<>>) @@ @,
          !.comms = (station_name :> <<>>) @@ @])

\* setup_satellite that creates the station's satellite map when missing
\* (dict.setdefault) instead of checking the station
setup_satellite_setdefault(w, station_name, norad_id, uplink, downlink) ==
    Ok([w EXCEPT !.satellites =
          (station_name :>
              ((norad_id :> Satellite(norad_id, uplink, downlink))
               @@ (IF station_name \in DOMAIN w.satellites
                   THEN w.satellites[station_name] ELSE <<>>))) @@ @])

setup_satellite(w, station_name, norad_id, uplink, downlink) ==
    IF _check_ground_station_setup(w, station_name) # ""
    THEN Raise(w, "NewOrbitronSetupError")
    ELSE LET detached ==
                 IF norad_id \in DOMAIN w.comms[station_name]
                    /\ w.comms[station_name][norad_id].alias
                 THEN [w EXCEPT !.comms[station_name][norad_id].alias = FALSE,
                                !.comms[station_name][norad_id].own =
                                    w.satellites[station_name][norad_id]]
                 ELSE w
         IN  Ok([detached EXCEPT !.satellites[station_name] =
                    (norad_id :> Satellite(norad_id, uplink, downlink)) @@ @])

\* setup_comm that checks the station only
setup_comm_station_only(w, station_name, norad_id) ==
    IF _check_ground_station_setup(w, station_name) # ""
    THEN Raise(w, "NewOrbitronSetupError")
    ELSE Ok([w EXCEPT !.comms[station_name] =
                (norad_id :> SatelliteStationComm) @@ @])

setup_comm(w, station_name, norad_id) ==
    IF _check_satellite_setup_for_ground_station(w, station_name, norad_id) # ""
    THEN Raise(w, "NewOrbitronSetupError")
    ELSE Ok([w EXCEPT !.comms[station_name] =
                (norad_id :> SatelliteStationComm) @@ @])

setup_new_tle_by_str(w, station_name, norad_id, tle_str) ==
    IF _check_satellite_setup_for_ground_station(w, station_name, norad_id) # ""
    THEN Raise(w, "NewOrbitronSetupError")
    ELSE LET r == setup_tle_by_str(w.satellites[station_name][norad_id],
                                   w.files, tle_str)
         IN  [w |-> [w EXCEPT !.satellites[station_name][norad_id] = r.w.sat,
                              !.files = r.w.files],
              err |-> r.err, ret |-> <<>>]

setup_new_tle_by_file(w, station_name, norad_id, tle_file_name) ==
    IF _check_satellite_setup_for_ground_station(w, station_name, norad_id) # ""
    THEN Raise(w, "NewOrbitronSetupError")
    ELSE LET r == setup_tle_by_file(w.satellites[station_name][norad_id],
                                    w.files, tle_file_name)
         IN  [w |-> [w EXCEPT !.satellites[station_name][norad_id] = r.w.sat,
                              !.files = r.w.files],
              err |-> r.err, ret |-> <<>>]

setup_new_tle_by_spacetrack(w, station_name, norad_id, answer) ==
    IF _check_satellite_setup_for_ground_station(w, station_name, norad_id) # ""
    THEN Raise(w, "NewOrbitronSetupError")
    ELSE LET r == setup_tle_by_spacetrack(w.satellites[station_name][norad_id],
                                          w.files, answer)
         IN  [w |-> [w EXCEPT !.satellites[station_name][norad_id] = r.w.sat,
                              !.files = r.w.files],
              err |-> r.err, ret |-> <<>>]

\* the loop of update_tles_by_spacetrack over norad_ids[i..]
RECURSIVE UpdateTlesLoop(_, _, _, _, _)
UpdateTlesLoop(w, station_name, norad_ids, i, answer) ==
    IF i > Len(norad_ids)
    THEN Ok(w)
    ELSE IF station_name \notin DOMAIN w.satellites
    THEN Raise(w, "KeyError")
    ELSE IF norad_ids[i] \notin DOMAIN w.satellites[station_name]
    THEN UpdateTlesLoop(w, station_name, norad_ids, i + 1, answer)
    ELSE LET r == update_tle_by_spacetrack(
                      w.satellites[station_name][norad_ids[i]], w.files, answer)
             w1 == [w EXCEPT !.satellites[station_name][norad_ids[i]] = r.w.sat,
                             !.files = r.w.files]
         IN  IF r.err # ""
             THEN Raise(w1, r.err)
             ELSE UpdateTlesLoop(w1, station_name, norad_ids, i + 1, answer)

update_tles_by_spacetrack(w, station_name, norad_ids, answer) ==
    UpdateTlesLoop(w, station_name, norad_ids, 1, answer)

predict_comm(w, station_name, norad_id, start_prediction, time_prediction, step_prediction, now) ==
    LET start == TruncSecond(IF IsNone(start_prediction) THEN now
                             ELSE Val(start_prediction))
    IN  IF _check_comm_setup_for_satellite_with_ground_station(
               w, station_name, norad_id) # ""
        THEN Raise(w, "NewOrbitronSetupError")
        ELSE LET p == predict_cm(w.satellites[station_name][norad_id], start,
                                 time_prediction, step_prediction)
                 w1 == [w EXCEPT !.satellites[station_name][norad_id] = p.w]
                 c == calculate_comm_for_predicted_period(
                          CommSatellite(w1, station_name, norad_id),
                          w1.stations[station_name],
                          w1.comms[station_name][norad_id].comm_data)
             IN  IF p.err # ""
                 THEN Raise(w, p.err)
                 ELSE [w |-> PutComm(w1, station_name, norad_id, c.w.sat,
                                     c.w.comm_data),
                       err |-> c.err, ret |-> <<>>]

\* the point queries: which fields of the CommParams at dt they return
PointQuery(w, station_name, norad_id, dt, now, fields) ==
    IF _check_comm_prediction_data(w, station_name, norad_id) # ""
    THEN Raise(w, _check_comm_prediction_data(w, station_name, norad_id))
    ELSE LET at == TruncSecond(IF IsNone(dt) THEN now ELSE Val(dt))
             comm_data == w.comms[station_name][norad_id].comm_data
         IN  Return(w, [f \in fields \cup {"dt"} |->
                 IF f = "dt" THEN Some(at)
                 ELSE IF ~DictHas(comm_data, at) THEN None
                 ELSE IF f \in {"uplink", "downlink"}
                      THEN DictGet(comm_data, at)[f]
                      ELSE Some(DictGet(comm_data, at)[f])])

get_azimuth_elevation(w, station_name, norad_id, dt, now) ==
    PointQuery(w, station_name, norad_id, dt, now, {"azimuth", "elevation"})

get_frequencies(w, station_name, norad_id, dt, now) ==
    PointQuery(w, station_name, norad_id, dt, now, {"uplink", "downlink"})

get_data(w, station_name, norad_id, dt, now) ==
    PointQuery(w, station_name, norad_id, dt, now,
               {"azimuth", "elevation", "uplink", "downlink"})

get_comm_sessions_params(w, station_name, norad_id) ==
    IF _check_comm_setup_for_satellite_with_ground_station(
           w, station_name, norad_id) # ""
    THEN Raise(w, "NewOrbitronSetupError")
    ELSE LET comm == w.comms[station_name][norad_id]
             d == define_session_params(CommSatellite(w, station_name, norad_id),
                                        w.stations[station_name],
                                        comm.comm_data, comm.session_params)
             w1 == PutComm(w, station_name, norad_id, d.w.sat, d.w.comm_data)
         IN  [w |-> [w1 EXCEPT !.comms[station_name][norad_id].session_params =
                                   d.w.session_params],
              err |-> d.err, ret |-> d.w.session_params]

\* the frequencies are assigned to the registered satellite before
\* comms[station_name][norad_id] is looked up; the recalculation starts
\* one second before now
setup_new_frequencies(w, station_name, norad_id, uplink, downlink, now) ==
    IF _check_satellite_setup_for_ground_station(w, station_name, norad_id) # ""
    THEN Raise(w, "NewOrbitronSetupError")
    ELSE LET w1 == [w EXCEPT
                     !.satellites[station_name][norad_id].uplink_freq = Some(uplink),
                     !.satellites[station_name][norad_id].downlink_freq = Some(downlink)]
         IN  IF norad_id \notin DOMAIN w1.comms[station_name]
             THEN Raise(w1, "KeyError")
             ELSE LET r == recalculate_uplink_downlink(
                               CommSatellite(w1, station_name, norad_id),
                               w1.stations[station_name],
                               w1.comms[station_name][norad_id].comm_data,
                               PlusSeconds(now, -1))
                  IN  [w |-> [w1 EXCEPT !.comms[station_name][norad_id].comm_data = r.w],
                       err |-> r.err, ret |-> <<>>]

\* what the get_setuped_stations branch of handle_request_message reads
\* from every registered GroundStation
get_setuped_stations(w) ==
    Return(w, [n \in DOMAIN w.stations |->
                 [longitude |-> w.stations[n].lam,
                  latitude |-> w.stations[n].phi,
                  altitude |-> w.stations[n].alt,
                  elevation |-> w.stations[n].elevation_min]])

\* what the get_station_satellites_info branch of handle_request_message
\* reads from the satellites of a station; tle_file_dt is an attribute
\* only once a TLE has been saved
get_station_satellites_info(w, station_name) ==
    IF station_name \notin DOMAIN w.satellites
    THEN Raise(w, "KeyError")
    ELSE IF \E n \in DOMAIN w.satellites[station_name] :
                IsNone(w.satellites[station_name][n].tle_file_dt)
    THEN Raise(w, "AttributeError")
    ELSE Return(w, [n \in DOMAIN w.satellites[station_name] |->
                      [uplink |-> w.satellites[station_name][n].uplink_freq,
                       downlink |-> w.satellites[station_name][n].downlink_freq,
                       tle_dt |-> Val(w.satellites[station_name][n].tle_file_dt)]])

\* Orbitron.get_all_data, in the order the server lists it: sorted by dt
get_all_data(w, station_name, norad_id) ==
    IF _check_comm_setup_for_satellite_with_ground_station(
           w, station_name, norad_id) # ""
    THEN Raise(w, "NewOrbitronSetupError")
    ELSE LET comm_data == w.comms[station_name][norad_id].comm_data
             dts == Sorted(DictKeys(comm_data))
         IN  Return(w, [i \in 1..Len(dts) |->
                          [dt |-> dts[i], params |-> DictGet(comm_data, dts[i])]])

\* clear_ground_station_data that clears the comms only
clear_ground_station_data_comms_only(w, station_name) ==
    IF station_name \notin DOMAIN w.satellites
    THEN Raise(w, "KeyError")
    ELSE Ok([w EXCEPT !.comms[station_name] = <<>>])

\* clear_ground_station_data that clears the satellites only
clear_ground_station_data_satellites_only(w, station_name) ==
    IF station_name \notin DOMAIN w.satellites
    THEN Raise(w, "KeyError")
    ELSE Ok([w EXCEPT !.satellites[station_name] = <<>>])

\* dict.clear() of satellites[station_name] and comms[station_name]
clear_ground_station_data(w, station_name) ==
    IF station_name \notin DOMAIN w.satellites
    THEN Raise(w, "KeyError")
    ELSE Ok([w EXCEPT !.satellites[station_name] = <<>>,
                      !.comms[station_name] = <<>>])

(***************************************************************************)
(* OrbitronTcpServer.handle_request_message (tcp/orbitron_tcp_server.py).  *)
(* A message is a record: the JSON object; its body is a record too.  The  *)
(* result is the world after the call and either the returned tuple resp   *)
(* or the exception the call raised.                                       *)
(***************************************************************************)
Has(d, fields) == fields \subseteq DOMAIN d
\* dict.get(key, default) of an optional number
Get(d, key) == IF key \in DOMAIN d THEN d[key] ELSE None

Responded(r, status) ==
    IF r.err # ""
    THEN [w |-> r.w, raised |-> r.err, resp |-> <<>>]
    ELSE [w |-> r.w, raised |-> "", resp |-> <<status>>]
RespondedData(r, status) ==
    IF r.err # ""
    THEN [w |-> r.w, raised |-> r.err, resp |-> <<>>]
    ELSE [w |-> r.w, raised |-> "", resp |-> <<status, r.ret>>]
Raised(w, e) == [w |-> w, raised |-> e, resp |-> <<>>]

\* an else branch that raises for a name the server does not know
unknown_request_raises(w) == Raised(w, "KeyError")

\* the else branch of handle_request_message
unknown_request(w) == [w |-> w, raised |-> "", resp |-> <<NONE>>]

handle_request_message(w, msg, now) ==
    LET request == msg.request
        body == msg.body
        hasBody == "body" \in DOMAIN msg
    IN
    IF request = "setup_ground_station" THEN
        IF ~hasBody THEN Raised(w, "TCPServerBodyRequestError")
        ELSE IF ~Has(body, {"longitude", "latitude", "altitude"})
        THEN Raised(w, "KeyError")
        ELSE Responded(setup_ground_station(w, body.longitude, body.latitude,
                 body.altitude,
                 IF "elevation" \in DOMAIN body THEN body.elevation ELSE 0,
                 IF "station_name" \in DOMAIN body THEN body.station_name
                 ELSE "default"), CONFIGURE)
    ELSE IF request = "setup_satellite" THEN
        IF ~hasBody THEN Raised(w, "TCPServerBodyRequestError")
        ELSE IF ~Has(body, {"station_name", "norad_id"})
        THEN Raised(w, "KeyError")
        ELSE Responded(setup_satellite(w, body.station_name, body.norad_id,
                 Get(body, "uplink"), Get(body, "downlink")), CONFIGURE)
    ELSE IF request = "setup_comm" THEN
        IF ~hasBody THEN Raised(w, "TCPServerBodyRequestError")
        ELSE IF ~Has(body, {"station_name", "norad_id"})
        THEN Raised(w, "KeyError")
        ELSE Responded(setup_comm(w, body.station_name, body.norad_id), CONFIGURE)
    ELSE IF request = "setup_new_tle_by_str" THEN
        IF ~hasBody THEN Raised(w, "TCPServerBodyRequestError")
        ELSE IF ~Has(body, {"station_name", "norad_id", "tle_str"})
        THEN Raised(w, "KeyError")
        ELSE Responded(setup_new_tle_by_str(w, body.station_name, body.norad_id,
                 body.tle_str), TLE_UPDATE)
    ELSE IF request = "predict_comm" THEN
        IF ~hasBody THEN Raised(w, "TCPServerBodyRequestError")
        ELSE IF ~Has(body, {"station_name", "norad_id"})
        THEN Raised(w, "KeyError")
        ELSE Responded(predict_comm(w, body.station_name, body.norad_id,
                 Get(body, "start_prediction"),
                 IF "time_prediction" \in DOMAIN body THEN body.time_prediction
                 ELSE DefaultTimePrediction,
                 IF "step_prediction" \in DOMAIN body THEN body.step_prediction
                 ELSE 1, now), PREDICT)
    ELSE IF request = "get_azimuth_elevation" THEN
        IF ~hasBody THEN Raised(w, "TCPServerBodyRequestError")
        ELSE IF ~Has(body, {"station_name", "norad_id"})
        THEN Raised(w, "KeyError")
        ELSE RespondedData(get_azimuth_elevation(w, body.station_name,
                 body.norad_id, Get(body, "dt"), now), GET_DATA)
    ELSE IF request = "get_frequencies" THEN
        IF ~hasBody THEN Raised(w, "TCPServerBodyRequestError")
        ELSE IF ~Has(body, {"station_name", "norad_id"})
        THEN Raised(w, "KeyError")
        ELSE RespondedData(get_frequencies(w, body.station_name,
                 body.norad_id, Get(body, "dt"), now), GET_DATA)
    ELSE IF request = "get_data" THEN
        IF ~hasBody THEN Raised(w, "TCPServerBodyRequestError")
        ELSE IF ~Has(body, {"station_name", "norad_id"})
        THEN Raised(w, "KeyError")
        ELSE RespondedData(get_data(w, body.station_name,
                 body.norad_id, Get(body, "dt"), now), GET_DATA)
    ELSE IF request = "setup_new_frequencies" THEN
        IF ~hasBody THEN Raised(w, "TCPServerBodyRequestError")
        ELSE IF ~Has(body, {"station_name", "norad_id", "uplink", "downlink"})
        THEN Raised(w, "KeyError")
        ELSE Responded(setup_new_frequencies(w, body.station_name, body.norad_id,
                 body.uplink, body.downlink, now), CONFIGURE)
    ELSE IF request = "get_setuped_stations" THEN
        RespondedData(get_setuped_stations(w), GET_DATA)
    ELSE IF request = "get_comm_sessions_params" THEN
        IF ~hasBody THEN Raised(w, "TCPServerBodyRequestError")
        ELSE IF ~Has(body, {"station_name", "norad_id"})
        THEN Raised(w, "KeyError")
        ELSE RespondedData(get_comm_sessions_params(w, body.station_name,
                 body.norad_id), GET_DATA)
    ELSE IF request = "get_station_satellites_info" THEN
        IF ~hasBody THEN Raised(w, "TCPServerBodyRequestError")
        ELSE IF ~Has(body, {"station_name"})
        THEN Raised(w, "KeyError")
        ELSE RespondedData(get_station_satellites_info(w, body.station_name),
                 GET_DATA)
    ELSE IF request = "get_all_data" THEN
        IF ~hasBody THEN Raised(w, "Exception")
        ELSE IF ~Has(body, {"station_name", "norad_id"})
        THEN Raised(w, "KeyError")
        ELSE RespondedData(get_all_data(w, body.station_name, body.norad_id),
                 GET_DATA)
    ELSE IF request = "clear_ground_station_data" THEN
        IF ~hasBody THEN Raised(w, "TCPServerBodyRequestError")
        ELSE IF ~Has(body, {"station_name"})
        THEN Raised(w, "KeyError")
        ELSE Responded(clear_ground_station_data(w, body.station_name), CONFIGURE)
    ELSE unknown_request(w)

\* handle_request_message for the requests that read a TLE file or ask
\* SpaceTrack, SpaceTrack answering answer
handle_tle_request_message(w, msg, now, answer) ==
    LET request == msg.request
        body == msg.body
        hasBody == "body" \in DOMAIN msg
    IN
    IF request = "setup_new_tle_by_file" THEN
        IF ~hasBody THEN Raised(w, "TCPServerBodyRequestError")
        ELSE IF ~Has(body, {"station_name", "norad_id", "tle_file_name",
                            "default_folder"})
        THEN Raised(w, "KeyError")
        ELSE Responded(setup_new_tle_by_file(w, body.station_name, body.norad_id,
                 body.tle_file_name), TLE_UPDATE)
    ELSE IF request = "setup_new_tle_by_spacetrack" THEN
        IF ~hasBody THEN Raised(w, "TCPServerBodyRequestError")
        ELSE IF ~Has(body, {"station_name", "norad_id"})
        THEN Raised(w, "KeyError")
        ELSE Responded(setup_new_tle_by_spacetrack(w, body.station_name,
                 body.norad_id, answer), TLE_UPDATE)
    ELSE IF request = "update_tles_by_spacetrack" THEN
        IF ~hasBody THEN Raised(w, "TCPServerBodyRequestError")
        ELSE IF ~Has(body, {"station_name", "norad_ids"})
        THEN Raised(w, "KeyError")
        ELSE Responded(update_tles_by_spacetrack(w, body.station_name,
                 body.norad_ids, answer), TLE_UPDATE)
    ELSE handle_request_message(w, msg, now)

\* RespOf with only the first except clause (TCPServerBodyRequestError)
RespOf_BodyErrorOnly(h) ==
    IF h.raised = "TCPServerBodyRequestError" THEN <<ERROR>> ELSE h.resp

\* the try/except around handle_request_message in _client_handler: the
\* tuple whose first element is sent as the status
RespOf(h) == IF h.raised # "" THEN <<ERROR>> ELSE h.resp

\* the reply that carries only the status, whatever the response type
Encode_StatusOnly(resp) == <<resp[1]>>

\* lines 119-123 of _client_handler: what sendall writes for the tuple
\* resp, as the sequence of the JSON values written
Encode(resp) ==
    IF resp[1] = GET_DATA THEN <<resp[2], resp[1]>> ELSE <<resp[1]>>

(***************************************************************************)
(* State.  stations, satellites, comms: the three maps of the Orbitron     *)
(* instance the server owns; files: the TLE cache directory; clock:        *)
(* datetime.utcnow(); last: the request dispatched last, what it raised    *)
(* and the tuple answered; handled: the number of requests dispatched.     *)
(* Server: _ThreadCounter; per connection, pc: where its handler thread    *)
(* is; sock: the server's socket of the connection; peer: the client's     *)
(* end; buf: the frame recv returned; cur: the request being handled and   *)
(* its response; reqs: the requests read so far; replies: the replies      *)
(* sent so far; nframes: the number of frames read on all connections.     *)
(* calc: the station and the satellite position of the sample calculated   *)
(* last from ECEF coordinates, with the sample.                            *)
(***************************************************************************)
VARIABLES stations, satellites, comms, files, clock, last, handled,
          ThreadCounter, pc, sock, peer, buf, cur, reqs, replies, nframes,
          calc

registry == <<stations, satellites, comms, files>>
server == <<ThreadCounter, pc, sock, peer, buf, cur, reqs, replies, nframes>>
vars == <<stations, satellites, comms, files, clock, last, handled,
          ThreadCounter, pc, sock, peer, buf, cur, reqs, replies, nframes,
          calc>>

World ==
    [stations |-> stations, satellites |-> satellites, comms |-> comms,
     files |-> files]

NoRequest == [msg |-> [request |-> "", body |-> <<>>], raised |-> "",
              resp |-> <<>>, now |-> 0]
NoFrame == [kind |-> ""]
\* no sample has been calculated
NoCalc == [done |-> FALSE]
NoCall == [idx |-> 0, msg |-> [request |-> ""], raised |-> "", resp |-> <<>>]

Init ==
    /\ stations = <<>>
    /\ satellites = <<>>
    /\ comms = <<>>
    /\ files = <<>>
    /\ clock = 0
    /\ last = NoRequest
    /\ handled = 0
    /\ ThreadCounter = 0
    /\ pc = [c \in Connections |-> "listen"]
    /\ sock = [c \in Connections |-> "none"]
    /\ peer = [c \in Connections |-> "none"]
    /\ buf = [c \in Connections |-> NoFrame]
    /\ cur = [c \in Connections |-> NoCall]
    /\ reqs = [c \in Connections |-> <<>>]
    /\ replies = [c \in Connections |-> <<>>]
    /\ nframes = 0
    /\ calc = NoCalc

(***************************************************************************)
(* The requests a client sends.                                            *)
(***************************************************************************)
Instants == 0..MaxClock
OptInstants == {None} \cup {Some(t) : t \in Instants}

Record(station_name, norad_id) ==
    [station_name |-> station_name, norad_id |-> norad_id]
Records == { Record(n, i) : n \in StationNames, i \in NoradIds }
\* the record the clients predict and query
Tracked == { Record("Samara", 57173) }

\* a request without its body, and one whose body lacks station_name
Malformed(request) ==
    { [request |-> request],
      [request |-> request, body |-> [norad_id |-> 57173]] }

MsgSetupGroundStation ==
    { [request |-> "setup_ground_station",
       body |-> [longitude |-> 50, latitude |-> 53, altitude |-> 137,
                 elevation |-> 0, station_name |-> n]] : n \in StationNames }
    \cup Malformed("setup_ground_station")

MsgSetupSatellite ==
    { [request |-> "setup_satellite",
       body |-> [station_name |-> r.station_name, norad_id |-> r.norad_id,
                 uplink |-> f, downlink |-> f]] :
        r \in Tracked, f \in Frequencies }
    \cup { [request |-> "setup_satellite", body |-> r] : r \in Records }
    \cup Malformed("setup_satellite")

MsgSetupComm ==
    { [request |-> "setup_comm", body |-> r] : r \in Records }
    \cup Malformed("setup_comm")

MsgSetupNewTleByStr ==
    { [request |-> "setup_new_tle_by_str",
       body |-> [station_name |-> r.station_name, norad_id |-> r.norad_id,
                 tle_str |-> t]] : r \in Tracked, t \in TleStrs }
    \cup Malformed("setup_new_tle_by_str")

MsgPredictComm ==
    { [request |-> "predict_comm",
       body |-> [station_name |-> r.station_name, norad_id |-> r.norad_id,
                 start_prediction |-> s, time_prediction |-> h,
                 step_prediction |-> p]] :
        r \in Tracked, s \in OptInstants, h \in 1..MaxHorizon, p \in {1, 2} }
    \cup { [request |-> "predict_comm", body |-> r] : r \in Records }
    \cup Malformed("predict_comm")

MsgQuery(request) ==
    { [request |-> request,
       body |-> [station_name |-> r.station_name, norad_id |-> r.norad_id,
                 dt |-> t]] : r \in Tracked, t \in OptInstants }
    \cup { [request |-> request, body |-> r] : r \in Records }
    \cup Malformed(request)

MsgClearGroundStationData ==
    { [request |-> "clear_ground_station_data", body |-> [station_name |-> n]] :
        n \in StationNames }
    \cup Malformed("clear_ground_station_data")

MsgUnknown == { [request |-> "get_radar"], [request |-> "get_radar", body |-> <<>>] }

(***************************************************************************)
(* Spec: one handler thread; it dispatches a request (the try block of     *)
(* _client_handler), sends the reply, then takes the next request.         *)
(***************************************************************************)
Pending == last.msg.request # ""

Dispatch(msg) ==
    /\ ~Pending
    /\ handled < MaxRequests
    /\ LET h == handle_request_message(World, msg, clock)
       IN  /\ stations' = h.w.stations
           /\ satellites' = h.w.satellites
           /\ comms' = h.w.comms
           /\ files' = h.w.files
           /\ last' = [msg |-> msg, raised |-> h.raised, resp |-> RespOf(h),
                       now |-> clock]
    /\ handled' = handled + 1
    /\ UNCHANGED <<calc, clock, server>>

SetupGroundStation == \E msg \in MsgSetupGroundStation : Dispatch(msg)
SetupSatellite == \E msg \in MsgSetupSatellite : Dispatch(msg)
SetupComm == \E msg \in MsgSetupComm : Dispatch(msg)
SetupNewTleByStr == \E msg \in MsgSetupNewTleByStr : Dispatch(msg)
PredictComm == \E msg \in MsgPredictComm : Dispatch(msg)
GetAzimuthElevation == \E msg \in MsgQuery("get_azimuth_elevation") : Dispatch(msg)
GetFrequencies == \E msg \in MsgQuery("get_frequencies") : Dispatch(msg)
GetData == \E msg \in MsgQuery("get_data") : Dispatch(msg)
ClearGroundStationData == \E msg \in MsgClearGroundStationData : Dispatch(msg)
UnknownRequest == \E msg \in MsgUnknown : Dispatch(msg)

\* connection.sendall of the reply to the request dispatched
Reply ==
    /\ Pending
    /\ last' = NoRequest
    /\ UNCHANGED <<calc, registry, clock, handled, server>>

\* time passes (the clock is read when a request is dispatched)
Tick ==
    /\ ~Pending
    /\ clock < MaxClock
    /\ clock' = clock + 1
    /\ UNCHANGED <<calc, registry, last, handled, server>>

Next ==
    \/ SetupGroundStation
    \/ SetupSatellite
    \/ SetupComm
    \/ SetupNewTleByStr
    \/ PredictComm
    \/ GetAzimuthElevation
    \/ GetFrequencies
    \/ GetData
    \/ ClearGroundStationData
    \/ UnknownRequest
    \/ Reply
    \/ Tick

Spec == Init /\ [][Next]_vars

(***************************************************************************)
(* SpecComm: one handler thread again, serving a client that sets up one   *)
(* station, one satellite and their Comm, predicts whole passes of the     *)
(* satellite, asks for the sessions and changes the frequencies.           *)
(***************************************************************************)
ValidTle == CHOOSE t \in TleStrs : t.nlines = 2 /\ t.fmt

MsgCommSetup ==
    { [request |-> "setup_ground_station",
       body |-> [longitude |-> 50, latitude |-> 53, altitude |-> 137,
                 elevation |-> 0, station_name |-> "Samara"]],
      [request |-> "setup_satellite",
       body |-> [station_name |-> "Samara", norad_id |-> 57173,
                 uplink |-> Some(437), downlink |-> Some(437)]],
      [request |-> "setup_new_tle_by_str",
       body |-> [station_name |-> "Samara", norad_id |-> 57173,
                 tle_str |-> ValidTle]],
      [request |-> "setup_comm", body |-> Record("Samara", 57173)] }

\* the starts of the predictions: now, a second later, during the next pass
PassStarts == { Some(PlusSeconds(0, sec)) : sec \in {0, 1, 9} }

MsgPredictPass ==
    { [request |-> "predict_comm",
       body |-> [station_name |-> r.station_name, norad_id |-> r.norad_id,
                 start_prediction |-> s, time_prediction |-> h,
                 step_prediction |-> p]] :
        r \in Tracked, s \in PassStarts,
        h \in {2, MaxPass, 2 * MaxPass}, p \in {1, 2} }

MsgGetCommSessionsParams ==
    { [request |-> "get_comm_sessions_params", body |-> r] : r \in Tracked }
    \cup { [request |-> "get_comm_sessions_params"] }

MsgSetupNewFrequencies ==
    { [request |-> "setup_new_frequencies",
       body |-> [station_name |-> r.station_name, norad_id |-> r.norad_id,
                 uplink |-> 145, downlink |-> 145]] : r \in Tracked }
    \cup { [request |-> "setup_new_frequencies", body |-> r] : r \in Tracked }

MsgGetSetupedStations == { [request |-> "get_setuped_stations"] }

DispatchComm(msg) ==
    /\ ~Pending
    /\ handled < MaxCommRequests
    /\ LET h == handle_request_message(World, msg, clock)
       IN  /\ stations' = h.w.stations
           /\ satellites' = h.w.satellites
           /\ comms' = h.w.comms
           /\ files' = h.w.files
           /\ last' = [msg |-> msg, raised |-> h.raised, resp |-> RespOf(h),
                       now |-> clock]
    /\ handled' = handled + 1
    /\ UNCHANGED <<calc, clock, server>>

CommSetup == \E msg \in MsgCommSetup : DispatchComm(msg)
PredictPass == \E msg \in MsgPredictPass : DispatchComm(msg)
GetCommSessionsParams == \E msg \in MsgGetCommSessionsParams : DispatchComm(msg)
SetupNewFrequencies == \E msg \in MsgSetupNewFrequencies : DispatchComm(msg)
GetSetupedStations == \E msg \in MsgGetSetupedStations : DispatchComm(msg)

NextComm ==
    \/ CommSetup
    \/ PredictPass
    \/ GetCommSessionsParams
    \/ SetupNewFrequencies
    \/ GetSetupedStations
    \/ Reply
    \/ Tick

SpecComm == Init /\ [][NextComm]_vars

(***************************************************************************)
(* SpecSessions: the handler of SpecComm serving a client that sets up the *)
(* record, predicts passes and asks for the sessions after each of them.   *)
(***************************************************************************)
\* predictions of a whole pass, second by second: of the pass under way
\* and of the next one
MsgPredictWholePass ==
    { msg \in MsgPredictPass :
        /\ msg.body.start_prediction \in {Some(0), Some(PlusSeconds(0, 9))}
        /\ msg.body.time_prediction = MaxPass
        /\ msg.body.step_prediction = 1 }

DispatchSessions(msg) ==
    /\ ~Pending
    /\ handled < MaxSessionRequests
    /\ LET h == handle_request_message(World, msg, clock)
       IN  /\ stations' = h.w.stations
           /\ satellites' = h.w.satellites
           /\ comms' = h.w.comms
           /\ files' = h.w.files
           /\ last' = [msg |-> msg, raised |-> h.raised, resp |-> RespOf(h),
                       now |-> clock]
    /\ handled' = handled + 1
    /\ UNCHANGED <<calc, clock, server>>

SessionsSetup == \E msg \in MsgCommSetup : DispatchSessions(msg)
SessionsPredict == \E msg \in MsgPredictWholePass : DispatchSessions(msg)
SessionsGet == \E msg \in MsgGetCommSessionsParams : DispatchSessions(msg)

NextSessions ==
    \/ SessionsSetup
    \/ SessionsPredict
    \/ SessionsGet
    \/ Reply

SpecSessions == Init /\ [][NextSessions]_vars

(***************************************************************************)
(* SpecTle: the handler of Spec on the requests that replace the TLE of a  *)
(* satellite: by text, by a file of the cache directory, by SpaceTrack.    *)
(* What SpaceTrack answers is an input of the request.                     *)
(***************************************************************************)
MsgTleSetup ==
    { [request |-> "setup_ground_station",
       body |-> [longitude |-> 50, latitude |-> 53, altitude |-> 137,
                 elevation |-> 0, station_name |-> "Samara"]],
      [request |-> "setup_satellite",
       body |-> [station_name |-> "Samara", norad_id |-> 57173,
                 uplink |-> Some(437), downlink |-> Some(437)]] }
    \cup { [request |-> "setup_new_tle_by_str",
            body |-> [station_name |-> "Samara", norad_id |-> 57173,
                      tle_str |-> t]] : t \in TleStrs }

MsgSetupNewTleByFile ==
    { [request |-> "setup_new_tle_by_file",
       body |-> [station_name |-> "Samara", norad_id |-> 57173,
                 tle_file_name |-> f, default_folder |-> TRUE]] :
        f \in { <<57173, 1>>, <<57173, 2>>, OldTleFileName(<<57173, 1>>) } }
    \cup { [request |-> "setup_new_tle_by_file",
            body |-> [station_name |-> "Samara", norad_id |-> 57173,
                      tle_file_name |-> <<57173, 1>>]] }

MsgSetupNewTleBySpacetrack ==
    { [request |-> "setup_new_tle_by_spacetrack",
       body |-> Record("Samara", 57173)],
      [request |-> "setup_new_tle_by_spacetrack"] }

MsgUpdateTlesBySpacetrack ==
    { [request |-> "update_tles_by_spacetrack",
       body |-> [station_name |-> "Samara", norad_ids |-> ids]] :
        ids \in { <<57173>>, <<40069, 57173>>, <<>> } }
    \cup { [request |-> "update_tles_by_spacetrack",
            body |-> [station_name |-> "Samara"]] }

DispatchTle(msg, answer) ==
    /\ ~Pending
    /\ handled < MaxTleRequests
    /\ LET h == handle_tle_request_message(World, msg, clock, answer)
       IN  /\ stations' = h.w.stations
           /\ satellites' = h.w.satellites
           /\ comms' = h.w.comms
           /\ files' = h.w.files
           /\ last' = [msg |-> msg, raised |-> h.raised, resp |-> RespOf(h),
                       now |-> clock]
    /\ handled' = handled + 1
    /\ UNCHANGED <<calc, clock, server>>

TleSetup ==
    \E msg \in MsgTleSetup, answer \in SpaceTrackAnswers : DispatchTle(msg, answer)
SetupNewTleByFile ==
    \E msg \in MsgSetupNewTleByFile, answer \in SpaceTrackAnswers :
        DispatchTle(msg, answer)
SetupNewTleBySpacetrack ==
    \E msg \in MsgSetupNewTleBySpacetrack, answer \in SpaceTrackAnswers :
        DispatchTle(msg, answer)
UpdateTlesBySpacetrack ==
    \E msg \in MsgUpdateTlesBySpacetrack, answer \in SpaceTrackAnswers :
        DispatchTle(msg, answer)

NextTle ==
    \/ TleSetup
    \/ SetupNewTleByFile
    \/ SetupNewTleBySpacetrack
    \/ UpdateTlesBySpacetrack
    \/ Reply
    \/ Tick

SpecTle == Init /\ [][NextTle]_vars

(***************************************************************************)
(* SpecCatalog: the handler of Spec on one request of every name the       *)
(* server knows, and on names it does not know.                            *)
(***************************************************************************)
MsgConfigure ==
    { m \in MsgCommSetup : m.request # "setup_new_tle_by_str" }
    \cup { [request |-> "setup_new_frequencies",
            body |-> [station_name |-> "Samara", norad_id |-> 57173,
                      uplink |-> 145, downlink |-> 145]],
           [request |-> "clear_ground_station_data",
            body |-> [station_name |-> "Samara"]],
           [request |-> "setup_comm"] }

MsgTleUpdate ==
    { [request |-> "setup_new_tle_by_str",
       body |-> [station_name |-> "Samara", norad_id |-> 57173,
                 tle_str |-> ValidTle]],
      [request |-> "setup_new_tle_by_file",
       body |-> [station_name |-> "Samara", norad_id |-> 57173,
                 tle_file_name |-> TleFileName(ValidTle),
                 default_folder |-> TRUE]],
      [request |-> "setup_new_tle_by_spacetrack",
       body |-> Record("Samara", 57173)],
      [request |-> "update_tles_by_spacetrack",
       body |-> [station_name |-> "Samara", norad_ids |-> <<57173>>]] }

MsgPredict ==
    { [request |-> "predict_comm",
       body |-> [station_name |-> "Samara", norad_id |-> 57173,
                 start_prediction |-> Some(0), time_prediction |-> h,
                 step_prediction |-> 1]] : h \in {MaxPass} }

MsgGetData ==
    { [request |-> r, body |-> [station_name |-> "Samara", norad_id |-> 57173]] :
        r \in { "get_station_satellites_info", "get_azimuth_elevation",
                "get_frequencies", "get_data", "get_comm_sessions_params",
                "get_all_data" } }
    \cup { [request |-> "get_setuped_stations"], [request |-> "get_all_data"] }

DispatchCatalog(msg, answer) ==
    /\ ~Pending
    /\ handled < MaxCatalogRequests
    /\ LET h == handle_tle_request_message(World, msg, clock, answer)
       IN  /\ stations' = h.w.stations
           /\ satellites' = h.w.satellites
           /\ comms' = h.w.comms
           /\ files' = h.w.files
           /\ last' = [msg |-> msg, raised |-> h.raised, resp |-> RespOf(h),
                       now |-> clock]
    /\ handled' = handled + 1
    /\ UNCHANGED <<calc, clock, server>>

CatalogConfigure ==
    \E msg \in MsgConfigure, answer \in SpaceTrackAnswers :
        DispatchCatalog(msg, answer)
CatalogTleUpdate ==
    \E msg \in MsgTleUpdate, answer \in SpaceTrackAnswers :
        DispatchCatalog(msg, answer)
CatalogPredict ==
    \E msg \in MsgPredict, answer \in SpaceTrackAnswers :
        DispatchCatalog(msg, answer)
CatalogGetData ==
    \E msg \in MsgGetData, answer \in SpaceTrackAnswers :
        DispatchCatalog(msg, answer)
CatalogUnknown ==
    \E msg \in MsgUnknown, answer \in SpaceTrackAnswers :
        DispatchCatalog(msg, answer)

NextCatalog ==
    \/ CatalogConfigure
    \/ CatalogTleUpdate
    \/ CatalogPredict
    \/ CatalogGetData
    \/ CatalogUnknown
    \/ Reply
    \/ Tick

SpecCatalog == Init /\ [][NextCatalog]_vars

(***************************************************************************)
(* SpecSample: the sample of one satellite position, calculated from ECEF  *)
(* coordinates for a station on the equator or at the pole, with any of    *)
(* five minimum elevations.                                                *)
(***************************************************************************)
MinElevations == {-90, -30, 0, 30, 90}

EcefStations ==
    { GroundStationEcef(0, latitude, 0, elevation_min, "default") :
        latitude \in {0, 90}, elevation_min \in MinElevations }

\* where the satellite is from the station: up kilometres above the
\* station's horizon plane and along kilometres along it
LinesOfSight ==
    { [up |-> 500, along |-> 0], [up |-> 900, along |-> 1200],
      [up |-> 1200, along |-> 900], [up |-> 0, along |-> 2500],
      [up |-> -2100, along |-> 2800], [up |-> 1680, along |-> 2911],
      [up |-> -1680, along |-> 2911], [up |-> 451, along |-> 780],
      [up |-> -451, along |-> 780], [up |-> 780, along |-> 451],
      [up |-> -500, along |-> 0] }

\* the ECEF position of the satellite seen from station along the line of
\* sight los
SatEcef(station, los) ==
    IF station.pos.z = 0
    THEN [x |-> station.pos.x + los.up, y |-> los.along, z |-> 0]
    ELSE [x |-> los.along, y |-> 0, z |-> station.pos.z + los.up]

CalculateSample ==
    /\ \E station \in EcefStations, los \in LinesOfSight :
           LET xyz_ecef_sat == SatEcef(station, los)
           IN  calc' = [done |-> TRUE, station |-> station,
                        pos_sat_ecef |-> xyz_ecef_sat,
                        elevation |-> _calculate_elevation_ecef(station,
                                                               xyz_ecef_sat),
                        visibility |-> _calculate_visibility_ecef(station,
                                                                 xyz_ecef_sat)]
    /\ UNCHANGED <<registry, clock, last, handled, server>>

NextSample == CalculateSample

SpecSample == Init /\ [][NextSample]_vars

(***************************************************************************)
(* SpecScan: the scan of define_session_params over the samples of one     *)
(* session, for azimuths on both sides of north.                           *)
(***************************************************************************)
ScanAzimuths == {0, 10, 180, 345, 359}

\* the samples of a session, a second apart, with the azimuths azs
SessionSamples(azs) ==
    [j \in 1..Len(azs) |->
        [k |-> PlusSeconds(0, j),
         v |-> [azimuth |-> azs[j], elevation |-> 10 * j, visibility |-> TRUE]]]

ScanSession ==
    /\ \E n \in 2..MaxScan : \E azs \in [1..n -> ScanAzimuths] :
           calc' = [done |-> TRUE, azimuths |-> azs,
                    scan |-> MaxLoop(SessionSamples(azs), 1, None, -90, 0,
                                     None, FALSE)]
    /\ UNCHANGED <<registry, clock, last, handled, server>>

NextScan == ScanSession

SpecScan == Init /\ [][NextScan]_vars

(***************************************************************************)
(* SpecSrv: the listener thread (_accept_connections) and one handler      *)
(* thread per connection (_client_handler), interleaved.  The handlers     *)
(* share the Orbitron instance; nothing in the server serializes them.     *)
(***************************************************************************)
\* the frames a client sends on a connection
SrvMsgs ==
    { [request |-> "setup_ground_station",
       body |-> [longitude |-> 50, latitude |-> 53, altitude |-> 137,
                 station_name |-> "Samara"]],
      [request |-> "setup_satellite", body |-> Record("Samara", 57173)],
      [request |-> "setup_comm", body |-> [norad_id |-> 57173]],
      [request |-> "get_data", body |-> Record("Samara", 57173)],
      [request |-> "predict_comm"],
      [request |-> "get_radar"] }

SrvFrames ==
    { [kind |-> "CLOSE"],
      [kind |-> "text"],         \* text that is not JSON
      [kind |-> "object", msg |-> [body |-> <<>>]] }
    \cup { [kind |-> "object", msg |-> m] : m \in SrvMsgs }

\* sock.accept(), the counter, the start of the handler thread
Accept(c) ==
    /\ pc[c] = "listen"
    /\ ThreadCounter' = ThreadCounter + 1
    /\ pc' = [pc EXCEPT ![c] = "recv"]
    /\ sock' = [sock EXCEPT ![c] = "open"]
    /\ peer' = [peer EXCEPT ![c] = "open"]
    /\ UNCHANGED <<calc, registry, clock, last, handled, buf, cur, reqs, replies, nframes>>

\* connection.recv(2048) returns a frame the client sent
Recv(c) ==
    /\ pc[c] = "recv"
    /\ peer[c] = "open"
    /\ nframes < MaxFrames
    /\ \E f \in SrvFrames : buf' = [buf EXCEPT ![c] = f]
    /\ nframes' = nframes + 1
    /\ pc' = [pc EXCEPT ![c] = "decode"]
    /\ UNCHANGED <<calc, registry, clock, last, handled, ThreadCounter, sock, peer, cur,
                   reqs, replies>>

\* connection.recv(2048) returns b"" because the peer has closed
RecvEmpty(c) ==
    /\ pc[c] = "recv"
    /\ peer[c] = "closed"
    /\ buf' = [buf EXCEPT ![c] = [kind |-> "empty"]]
    /\ pc' = [pc EXCEPT ![c] = "decode"]
    /\ UNCHANGED <<calc, registry, clock, last, handled, ThreadCounter, sock, peer, cur,
                   reqs, replies, nframes>>

\* connection.recv(2048) raises because the peer has reset the connection:
\* the exception ends the thread
RecvError(c) ==
    /\ pc[c] = "recv"
    /\ peer[c] = "reset"
    /\ pc' = [pc EXCEPT ![c] = "died"]
    /\ UNCHANGED <<calc, registry, clock, last, handled, ThreadCounter, sock, peer, buf,
                   cur, reqs, replies, nframes>>

\* lines 96-108 and 125: decode, the CLOSE test, json.loads, the test for
\* the "request" key
Decode(c) ==
    /\ pc[c] = "decode"
    /\ buf' = [buf EXCEPT ![c] = NoFrame]
    /\ IF buf[c].kind = "CLOSE"
       THEN /\ ThreadCounter' = ThreadCounter - 1
            /\ pc' = [pc EXCEPT ![c] = "done"]
            /\ sock' = [sock EXCEPT ![c] = "closed"]
            /\ UNCHANGED <<calc, cur, reqs>>
       ELSE IF buf[c].kind = "empty"
       THEN /\ pc' = [pc EXCEPT ![c] = "recv"]
            /\ UNCHANGED <<calc, ThreadCounter, sock, cur, reqs>>
       ELSE IF buf[c].kind = "text"
       THEN /\ pc' = [pc EXCEPT ![c] = "died"]
            /\ UNCHANGED <<calc, ThreadCounter, sock, cur, reqs>>
       ELSE IF "request" \notin DOMAIN buf[c].msg
       THEN /\ pc' = [pc EXCEPT ![c] = "recv"]
            /\ UNCHANGED <<calc, ThreadCounter, sock, cur, reqs>>
       ELSE /\ pc' = [pc EXCEPT ![c] = "handle"]
            /\ reqs' = [reqs EXCEPT ![c] = Append(@, buf[c].msg)]
            /\ cur' = [cur EXCEPT ![c] = [idx |-> Len(reqs[c]) + 1,
                                           msg |-> buf[c].msg,
                                           raised |-> "", resp |-> <<>>]]
            /\ UNCHANGED <<calc, ThreadCounter, sock>>
    /\ UNCHANGED <<calc, registry, clock, last, handled, peer, replies, nframes>>

\* lines 110-117: handle_request_message inside the try block
Handle(c) ==
    /\ pc[c] = "handle"
    /\ LET h == handle_request_message(World, cur[c].msg, clock)
       IN  /\ stations' = h.w.stations
           /\ satellites' = h.w.satellites
           /\ comms' = h.w.comms
           /\ files' = h.w.files
           /\ cur' = [cur EXCEPT ![c].raised = h.raised, ![c].resp = RespOf(h)]
    /\ pc' = [pc EXCEPT ![c] = "send"]
    /\ UNCHANGED <<calc, clock, last, handled, ThreadCounter, sock, peer, buf, reqs,
                   replies, nframes>>

\* Send that writes nothing for a request answered with status NONE
Send_SilentOnNone(c) ==
    /\ pc[c] = "send"
    /\ peer[c] # "reset"
    /\ replies' = [replies EXCEPT ![c] =
                      IF cur[c].resp = <<NONE>> THEN @
                      ELSE Append(@, [req |-> cur[c].idx, msg |-> cur[c].msg,
                                      raised |-> cur[c].raised,
                                      resp |-> cur[c].resp])]
    /\ cur' = [cur EXCEPT ![c] = NoCall]
    /\ pc' = [pc EXCEPT ![c] = "recv"]
    /\ UNCHANGED <<calc, registry, clock, last, handled, ThreadCounter, sock, peer, buf,
                   reqs, nframes>>

\* lines 119-123: connection.sendall of the status (after the data)
Send(c) ==
    /\ pc[c] = "send"
    /\ peer[c] # "reset"
    /\ replies' = [replies EXCEPT ![c] =
                      Append(@, [req |-> cur[c].idx, msg |-> cur[c].msg,
                                 raised |-> cur[c].raised,
                                 resp |-> cur[c].resp])]
    /\ cur' = [cur EXCEPT ![c] = NoCall]
    /\ pc' = [pc EXCEPT ![c] = "recv"]
    /\ UNCHANGED <<calc, registry, clock, last, handled, ThreadCounter, sock, peer, buf,
                   reqs, nframes>>

\* connection.sendall raises because the peer has reset the connection
SendError(c) ==
    /\ pc[c] = "send"
    /\ peer[c] = "reset"
    /\ pc' = [pc EXCEPT ![c] = "died"]
    /\ UNCHANGED <<calc, registry, clock, last, handled, ThreadCounter, sock, peer, buf,
                   cur, reqs, replies, nframes>>

\* the client closes its end (close_connection after its CLOSE frame, or
\* the client process ends)
PeerClose(c) ==
    /\ peer[c] = "open"
    /\ peer' = [peer EXCEPT ![c] = "closed"]
    /\ UNCHANGED <<calc, registry, clock, last, handled, ThreadCounter, pc, sock, buf,
                   cur, reqs, replies, nframes>>

\* the client's end is reset
PeerReset(c) ==
    /\ peer[c] = "open"
    /\ peer' = [peer EXCEPT ![c] = "reset"]
    /\ UNCHANGED <<calc, registry, clock, last, handled, ThreadCounter, pc, sock, buf,
                   cur, reqs, replies, nframes>>

NextSrv ==
    \E c \in Connections :
        \/ Accept(c)
        \/ Recv(c)
        \/ RecvEmpty(c)
        \/ RecvError(c)
        \/ Decode(c)
        \/ Handle(c)
        \/ Send(c)
        \/ SendError(c)
        \/ PeerClose(c)
        \/ PeerReset(c)

SpecSrv == Init /\ [][NextSrv]_vars

\* the scheduler runs every handler thread that can take a step
FairSrv ==
    /\ SpecSrv
    /\ \A c \in Connections :
        /\ WF_vars(RecvEmpty(c))
        /\ WF_vars(RecvError(c))
        /\ WF_vars(Decode(c))
        /\ WF_vars(Handle(c))
        /\ WF_vars(Send(c))
        /\ WF_vars(SendError(c))

(***************************************************************************)
(* Properties of the server threads (SpecSrv, FairSrv).                    *)
(***************************************************************************)
Exited(c) == pc[c] \in {"done", "died"}

\* C1: at most one handler thread is inside handle_request_message (a
\* Registry operation) at any time.
C1_OneHandlerInRegistry ==
    Cardinality({c \in Connections : pc[c] = "handle"}) <= 1

\* C2: a request whose handling raised is answered with exactly one
\* status-7 reply, the connection stays open, and the handler goes back to
\* reading the next request of the connection.
C2_ErrorReply ==
    [][\A c \in Connections :
        /\ (pc[c] = "handle" /\ pc'[c] # "handle" /\ cur'[c].raised # "")
            => (pc'[c] = "send" /\ cur'[c].resp = <<ERROR>> /\ sock'[c] = "open")
        /\ (pc[c] = "send" /\ cur[c].raised # "" /\ peer[c] # "reset"
              /\ pc'[c] # "send")
            => /\ replies'[c] = Append(replies[c],
                                       [req |-> cur[c].idx, msg |-> cur[c].msg,
                                        raised |-> cur[c].raised,
                                        resp |-> <<ERROR>>])
               /\ pc'[c] = "recv"
               /\ sock'[c] = "open"
        /\ \A i, j \in DOMAIN replies[c] :
              replies[c][i].req = replies[c][j].req => i = j
      ]_vars

\* the handler answered a failed request with status 7 and has read the
\* next request of the same connection
C2_Witness ==
    \E c \in Connections : \E i \in DOMAIN replies[c] :
        /\ replies[c][i].raised # ""
        /\ replies[c][i].resp = <<ERROR>>
        /\ Len(reqs[c]) > replies[c][i].req
        /\ sock[c] = "open"

\* C3: a handler eventually terminates once it has read "CLOSE", and once
\* the socket read has returned no data because the peer closed.
C3_HandlerTerminates ==
    \A c \in Connections :
        /\ (buf[c].kind = "CLOSE") ~> Exited(c)
        /\ (buf[c].kind = "empty") ~> Exited(c)

\* C4: whenever a handler thread has exited, its connection socket has
\* been closed.
C4_SocketClosedOnExit ==
    \A c \in Connections : Exited(c) => sock[c] = "closed"

\* C6: the k-th reply written on a connection answers the k-th request
\* read from that connection.
C6_ReplyOrder ==
    \A c \in Connections :
        /\ Len(replies[c]) <= Len(reqs[c])
        /\ \A k \in DOMAIN replies[c] :
              /\ replies[c][k].req = k
              /\ replies[c][k].msg = reqs[c][k]

\* two different requests of one connection have been answered
C6_Witness ==
    \E c \in Connections :
        /\ Len(replies[c]) >= 2
        /\ reqs[c][1] # reqs[c][2]

(***************************************************************************)
(* Properties of the registry behind the dispatch (Spec).  They are stated *)
(* on the request whose reply is pending.                                  *)
(***************************************************************************)
PointQueries == {"get_azimuth_elevation", "get_frequencies", "get_data"}

\* the request names a record: it has a body with station_name and norad_id
NamesRecord(msg) ==
    "body" \in DOMAIN msg /\ Has(msg.body, {"station_name", "norad_id"})

\* a Comm is set up for the record the request names
CommSetUp(msg) ==
    /\ msg.body.station_name \in DOMAIN comms
    /\ msg.body.norad_id \in DOMAIN comms[msg.body.station_name]

CommDataOf(msg) == comms[msg.body.station_name][msg.body.norad_id].comm_data

\* the instant a point query asks for: dt, or the current time without dt
RequestedInstant(l) ==
    IF IsNone(Get(l.msg.body, "dt")) THEN l.now ELSE Val(l.msg.body.dt)

ValuesNull(data) == \A f \in DOMAIN data \ {"dt"} : IsNone(data[f])

\* the start, the duration and the step predict_comm is asked for
RequestedStart(l) ==
    IF IsNone(Get(l.msg.body, "start_prediction")) THEN l.now
    ELSE Val(l.msg.body.start_prediction)
RequestedTime(l) ==
    IF "time_prediction" \in DOMAIN l.msg.body THEN l.msg.body.time_prediction
    ELSE DefaultTimePrediction
RequestedStep(l) ==
    IF "step_prediction" \in DOMAIN l.msg.body THEN l.msg.body.step_prediction
    ELSE 1

\* C5: when the Predict status is sent, comm_data of the record holds every
\* sample of the requested prediction: the instants start + i * step for
\* 0 <= i < time / step.
C5_PredictAckComplete ==
    (Pending /\ last.msg.request = "predict_comm" /\ last.resp = <<PREDICT>>)
    => \A i \in 0..((RequestedTime(last) \div RequestedStep(last)) - 1) :
          DictHas(CommDataOf(last.msg),
                  PlusSeconds(TruncSecond(RequestedStart(last)),
                              i * RequestedStep(last)))

\* C7: setup_satellite for a name that is not in stations raises
\* SetupMissing, is answered with status 7 and leaves stations, satellites
\* and comms unchanged.
C7_SetupSatelliteMissingStation ==
    [][(/\ ~Pending
        /\ last'.msg.request = "setup_satellite"
        /\ NamesRecord(last'.msg)
        /\ last'.msg.body.station_name \notin DOMAIN stations)
       => (/\ last'.raised = "NewOrbitronSetupError"
           /\ last'.resp = <<ERROR>>
           /\ stations' = stations
           /\ satellites' = satellites
           /\ comms' = comms)]_vars

\* setup_satellite was refused for an unregistered name while another
\* station is registered
C7_Witness ==
    /\ Pending
    /\ last.msg.request = "setup_satellite"
    /\ NamesRecord(last.msg)
    /\ last.msg.body.station_name \notin DOMAIN stations
    /\ last.raised = "NewOrbitronSetupError"
    /\ DOMAIN stations # {}

\* C8: setup_comm(name, id) raises SetupMissing (status 7) whenever id is
\* not a satellite registered under name, also when name is not registered,
\* and then no Comm is created or replaced.
C8_SetupCommMissingSatellite ==
    [][(/\ ~Pending
        /\ last'.msg.request = "setup_comm"
        /\ NamesRecord(last'.msg)
        /\ \/ last'.msg.body.station_name \notin DOMAIN stations
           \/ last'.msg.body.norad_id
                 \notin DOMAIN satellites[last'.msg.body.station_name])
       => (/\ last'.raised = "NewOrbitronSetupError"
           /\ last'.resp = <<ERROR>>
           /\ comms' = comms)]_vars

\* setup_comm was refused for a satellite that is not registered under a
\* registered station that has another satellite
C8_Witness ==
    /\ Pending
    /\ last.msg.request = "setup_comm"
    /\ NamesRecord(last.msg)
    /\ last.msg.body.station_name \in DOMAIN stations
    /\ last.msg.body.norad_id \notin DOMAIN satellites[last.msg.body.station_name]
    /\ DOMAIN satellites[last.msg.body.station_name] # {}
    /\ last.raised = "NewOrbitronSetupError"

C10_NoPredictionRaised ==
    (/\ Pending
     /\ last.msg.request \in PointQueries
     /\ NamesRecord(last.msg)
     /\ CommSetUp(last.msg)
     /\ Len(CommDataOf(last.msg)) = 0)
    => last.raised = "NewOrbitronDataError"

\* the propagated instants of the prediction the pending predict_comm asked
\* for: start + i * step for 0 <= i < time / step
RequestedInstants(l) ==
    { PlusSeconds(TruncSecond(RequestedStart(l)), i * RequestedStep(l)) :
        i \in 0..((RequestedTime(l) \div RequestedStep(l)) - 1) }

PredictCompleted ==
    Pending /\ last.msg.request = "predict_comm" /\ last.raised = ""

\* C11: after predict_comm(start, horizon, step) completes, comm_data holds
\* exactly one sample for every propagated instant, the first instant start
\* included.
C11_OneSamplePerInstant ==
    PredictCompleted
    => \A t \in RequestedInstants(last) :
          Cardinality({ i \in 1..Len(CommDataOf(last.msg)) :
                          CommDataOf(last.msg)[i].k = t }) = 1

\* C12: after any predict_comm completes, comm_data contains only samples
\* at instants of that most recent prediction.
C12_OnlyLatestPrediction ==
    PredictCompleted
    => DictKeys(CommDataOf(last.msg)) \subseteq RequestedInstants(last)

(***************************************************************************)
(* Properties of the sessions and of the frequencies (SpecComm).           *)
(***************************************************************************)
SessionsOf(msg) == comms[msg.body.station_name][msg.body.norad_id].session_params

SessionsCompleted ==
    /\ Pending
    /\ last.msg.request = "get_comm_sessions_params"
    /\ last.raised = ""

\* the sample of comm_data at instant t exists and is visible
VisibleAt(comm_data, t) ==
    DictHas(comm_data, t) /\ DictGet(comm_data, t).visibility

\* k and t are instants of neighbouring samples of comm_data, k before t
Neighbours(comm_data, k, t) ==
    /\ k < t
    /\ DictHas(comm_data, k)
    /\ DictHas(comm_data, t)
    /\ ~\E j \in DictKeys(comm_data) : k < j /\ j < t

\* C13: every Session is a maximal run of consecutive visible samples: the
\* samples at its start and at its end are visible, the sample right before
\* its start and the sample right after its end are not, and every visible
\* sample lies in a Session.
C13_SessionIsMaximalVisibleRun ==
    SessionsCompleted
    => LET comm_data == CommDataOf(last.msg)
           sessions == SessionsOf(last.msg)
       IN  /\ \A i \in 1..Len(sessions) :
                LET session == sessions[i].v
                IN  /\ VisibleAt(comm_data, session.start_session_dt)
                    /\ VisibleAt(comm_data, session.end_session_dt)
                    /\ \A k \in DictKeys(comm_data) :
                         /\ Neighbours(comm_data, k, session.start_session_dt)
                              => ~VisibleAt(comm_data, k)
                         /\ Neighbours(comm_data, session.end_session_dt, k)
                              => ~VisibleAt(comm_data, k)
           /\ \A k \in DictKeys(comm_data) :
                VisibleAt(comm_data, k)
                => \E i \in 1..Len(sessions) :
                      /\ sessions[i].v.start_session_dt <= k
                      /\ k <= sessions[i].v.end_session_dt

\* C14: for every Session, start <= max <= end, the elevation recorded at
\* max is at least the elevation of every sample in [start, end], and no
\* earlier sample of the Session has that maximal elevation.
C14_MaxElevationOfSession ==
    SessionsCompleted
    => LET comm_data == CommDataOf(last.msg)
           sessions == SessionsOf(last.msg)
       IN  \A i \in 1..Len(sessions) :
             LET session == sessions[i].v
             IN  /\ session.start_session_dt <= session.max_session_dt
                 /\ session.max_session_dt <= session.end_session_dt
                 /\ \A k \in DictKeys(comm_data) :
                      (session.start_session_dt <= k /\ k <= session.end_session_dt)
                      => /\ DictGet(comm_data, k).elevation <= session.max_elevation
                         /\ DictGet(comm_data, k).elevation = session.max_elevation
                              => session.max_session_dt <= k

\* the uplink and downlink of a sample are the carriers u and d with the
\* Doppler shift of the sample (added to one, taken off the other)
FromCarriers(sample, u, d) ==
    /\ ~IsNone(sample.uplink)
    /\ ~IsNone(sample.downlink)
    /\ Val(sample.uplink) - u = d - Val(sample.downlink)

\* C15: after setup_new_frequencies(u', d') on a record that has a
\* prediction, every sample at an instant >= the call time has uplink and
\* downlink computed from (u', d'), and every earlier sample keeps its
\* uplink and downlink.
C15_FrequenciesFromCallTime ==
    [][(/\ ~Pending
        /\ last'.msg.request = "setup_new_frequencies"
        /\ NamesRecord(last'.msg)
        /\ Has(last'.msg.body, {"uplink", "downlink"})
        /\ CommSetUp(last'.msg)
        /\ Len(CommDataOf(last'.msg)) > 0
        /\ last'.raised = "")
       => LET before == CommDataOf(last'.msg)
              after == comms'[last'.msg.body.station_name][last'.msg.body.norad_id].comm_data
          IN  /\ DictKeys(after) = DictKeys(before)
              /\ \A t \in DictKeys(after) :
                    IF t >= last'.now
                    THEN FromCarriers(DictGet(after, t), last'.msg.body.uplink,
                                      last'.msg.body.downlink)
                    ELSE /\ DictGet(after, t).uplink = DictGet(before, t).uplink
                         /\ DictGet(after, t).downlink = DictGet(before, t).downlink
      ]_vars

(***************************************************************************)
(* Properties of the TLE handling, the stations and the references of a    *)
(* Comm.                                                                   *)
(***************************************************************************)
\* the Satellite registered for the record the request names
RegisteredSatellite(msg) == satellites[msg.body.station_name][msg.body.norad_id]

\* C16: predict_comm for a satellite that has no TLE set fails with
\* TLEDataError, is answered with status 7, and leaves the trajectory and
\* comm_data of the record unchanged.
C16_PredictWithoutTle ==
    [][(/\ ~Pending
        /\ last'.msg.request = "predict_comm"
        /\ NamesRecord(last'.msg)
        /\ CommSetUp(last'.msg)
        /\ IsNone(RegisteredSatellite(last'.msg).orbital))
       => (/\ last'.raised = "TLEDataError"
           /\ last'.resp = <<ERROR>>
           /\ satellites' = satellites
           /\ comms' = comms)]_vars

\* the request names a satellite that is registered
SatelliteRegistered(msg) ==
    /\ msg.body.station_name \in DOMAIN satellites
    /\ msg.body.norad_id \in DOMAIN satellites[msg.body.station_name]

\* C17: a TLE text whose lines fail the TLE patterns yields TLEDataError
\* (status 7); no cache file is written for it and the satellite's stored
\* lines, epoch and SGP4 state stay as they were.
C17_InvalidTleLeavesNoTrace ==
    [][(/\ ~Pending
        /\ last'.msg.request = "setup_new_tle_by_str"
        /\ NamesRecord(last'.msg)
        /\ "tle_str" \in DOMAIN last'.msg.body
        /\ SatelliteRegistered(last'.msg)
        /\ ~last'.msg.body.tle_str.fmt)
       => (/\ last'.raised = "TLEDataError"
           /\ last'.resp = <<ERROR>>
           /\ files' = files
           /\ satellites' = satellites)]_vars

\* the request in hand is update_tles_by_spacetrack for the one registered
\* satellite, whose TLE is valid and whose TLE file is in the cache directory
UpdateOfCachedTle ==
    /\ last'.msg.request = "update_tles_by_spacetrack"
    /\ Has(last'.msg.body, {"station_name", "norad_ids"})
    /\ last'.msg.body.norad_ids = <<57173>>
    /\ "Samara" \in DOMAIN satellites
    /\ 57173 \in DOMAIN satellites["Samara"]
    /\ ~IsNone(satellites["Samara"][57173].tle_file_name)
    /\ Val(satellites["Samara"][57173].tle_file_name) \in DOMAIN files
    /\ ~IsNone(satellites["Samara"][57173].orbital)

\* C18: when update_tles_by_spacetrack fails to fetch or to validate the
\* new TLE of a satellite whose TLE file is cached, the previous file is
\* still at the path the satellite records and the TLE is the previous one.
C18_FailedUpdateKeepsCache ==
    [][(~Pending /\ Pending' /\ UpdateOfCachedTle /\ last'.raised # "")
       => LET before == satellites["Samara"][57173]
              after == satellites'["Samara"][57173]
          IN  /\ ~IsNone(after.tle_file_name)
              /\ Val(after.tle_file_name) \in DOMAIN files'
              /\ files'[Val(after.tle_file_name)]
                     = files[Val(before.tle_file_name)]
              /\ after.line = before.line
              /\ after.orbital = before.orbital]_vars

\* the bodies of the setup_ground_station requests for station name
GivenToSetupGroundStation(name) ==
    { m.body : m \in { x \in MsgCommSetup :
                         /\ x.request = "setup_ground_station"
                         /\ x.body.station_name = name } }

\* C19: get_setuped_stations reports, for every registered station, the
\* longitude, latitude and minimum elevation in degrees that were given to
\* setup_ground_station.
C19_StationsReportedInDegrees ==
    (last.msg.request = "get_setuped_stations" /\ last.raised = "")
    => \A name \in DOMAIN last.resp[2] :
           \E given \in GivenToSetupGroundStation(name) :
               /\ last.resp[2][name].longitude = given.longitude
               /\ last.resp[2][name].latitude = given.latitude
               /\ last.resp[2][name].elevation = given.elevation

\* C20: the Comm registered under (station_name, norad_id) operates on the
\* Satellite currently registered at satellites[station_name][norad_id],
\* also after setup_satellite was called again for that norad_id.
C20_CommOnRegisteredSatellite ==
    \A station_name \in DOMAIN comms :
        \A norad_id \in DOMAIN comms[station_name] :
            /\ norad_id \in DOMAIN satellites[station_name]
            /\ CommSatellite(World, station_name, norad_id)
                   = satellites[station_name][norad_id]

\* the status the request catalog lists for a request name
ListedStatus(request) ==
    IF request \in {"setup_ground_station", "setup_satellite", "setup_comm",
                    "setup_new_frequencies", "clear_ground_station_data"}
    THEN CONFIGURE
    ELSE IF request \in {"setup_new_tle_by_str", "setup_new_tle_by_file",
                         "setup_new_tle_by_spacetrack",
                         "update_tles_by_spacetrack"}
    THEN TLE_UPDATE
    ELSE IF request = "predict_comm" THEN PREDICT
    ELSE IF request \in {"get_setuped_stations", "get_station_satellites_info",
                         "get_azimuth_elevation", "get_frequencies", "get_data",
                         "get_comm_sessions_params"}
    THEN GET_DATA
    ELSE NONE

\* the request in hand was handled without error
HandledWithoutError == Pending /\ last.raised = ""

\* C21: a catalog request handled without error is answered with the
\* status listed for it; a GetData reply is the data followed by the
\* status, every other reply is the status alone.
C21_ListedStatusAndFraming ==
    (HandledWithoutError /\ ListedStatus(last.msg.request) # NONE)
    => /\ last.resp[1] = ListedStatus(last.msg.request)
       /\ IF ListedStatus(last.msg.request) = GET_DATA
          THEN /\ Len(last.resp) = 2
               /\ Encode(last.resp) = <<last.resp[2], GET_DATA>>
          ELSE Encode(last.resp) = <<ListedStatus(last.msg.request)>>

\* a pass has been predicted and its sessions are answered with the data
C21_Witness ==
    /\ HandledWithoutError
    /\ last.msg.request = "get_comm_sessions_params"
    /\ Len(last.resp) = 2
    /\ Len(last.resp[2]) > 0

\* the request taken in this step is answered with status 0, sent as the
\* digit alone, and the registry is as before
AnsweredNoneUntouched ==
    /\ last'.raised = ""
    /\ Encode(last'.resp) = <<NONE>>
    /\ registry' = registry

\* C22 (as stated): a request whose name is not in the request catalog is
\* answered with status 0, sent as the digit alone, and leaves the
\* registry unchanged.
C22_NotInCatalogAnsweredNone ==
    [][(~Pending /\ Pending' /\ ListedStatus(last'.msg.request) = NONE)
       => AnsweredNoneUntouched]_vars

\* C22 (amended): a request whose name is neither in the request catalog
\* nor get_all_data is answered with status 0, sent as the digit alone, and
\* leaves the registry unchanged.
C22_UnknownNameAnsweredNone ==
    [][(/\ ~Pending /\ Pending'
        /\ ListedStatus(last'.msg.request) = NONE
        /\ last'.msg.request # "get_all_data")
       => AnsweredNoneUntouched]_vars

\* a request of an unknown name is in hand while a station, a satellite
\* and a Comm are registered
C22_Witness ==
    /\ Pending
    /\ last.msg.request = "get_radar"
    /\ \E n \in DOMAIN comms : DOMAIN comms[n] # {}

\* predict_comm has completed on a request that carries start_prediction
PredictFromExplicitStart ==
    /\ PredictCompleted
    /\ ~IsNone(Get(last.msg.body, "start_prediction"))

\* the answer to the request in hand, were it sent once more at instant now
Again(now) == handle_request_message(World, last.msg, now)

\* C23: once predict_comm has completed, the same request sent again,
\* whenever it is sent, leaves comm_data of the record as the first call
\* left it: the same instants, in the same order, with the same samples.
C23_PredictCommIdempotent ==
    PredictFromExplicitStart
    => \A now \in Instants :
           Again(now).w.comms[last.msg.body.station_name][
               last.msg.body.norad_id].comm_data = CommDataOf(last.msg)

\* a prediction from an explicit start has completed and comm_data holds
\* its samples together with those of an earlier prediction
C23_Witness ==
    /\ PredictFromExplicitStart
    /\ \E i \in 1..Len(CommDataOf(last.msg)) :
           CommDataOf(last.msg)[i].k \in RequestedInstants(last)
    /\ \E i \in 1..Len(CommDataOf(last.msg)) :
           CommDataOf(last.msg)[i].k \notin RequestedInstants(last)

\* C24: a sample that is visible has an elevation greater than or equal
\* to the minimum elevation of the station, whatever the station's position
\* and minimum elevation.
C24_VisibleAboveMinElevation ==
    (calc.done /\ calc.visibility)
    => AtLeast(calc.elevation, Sin(calc.station.elevation_min))

\* this step takes the request get_comm_sessions_params for a record whose
\* Comm is set up and has comm_data
TakesSessionsRequest ==
    /\ ~Pending
    /\ Pending'
    /\ last'.msg.request = "get_comm_sessions_params"
    /\ NamesRecord(last'.msg)
    /\ CommSetUp(last'.msg)
    /\ Len(CommDataOf(last'.msg)) > 0

\* the trajectory the Comm of the record msg names scans
ScannedTrajectory(msg) ==
    CommSatellite(World, msg.body.station_name, msg.body.norad_id).pos_ecef

\* the scan of the trajectory ends inside a visibility window
EndsVisible(msg) ==
    /\ Len(ScannedTrajectory(msg)) > 0
    /\ _calculate_visibility(stations[msg.body.station_name],
           ScannedTrajectory(msg)[Len(ScannedTrajectory(msg))].v)

\* C25: a session still open at the end of the scanned trajectory is
\* emitted with the final sample as its end, also when no session was
\* closed before it.
C25_OpenSessionEmitted ==
    [][(TakesSessionsRequest /\ EndsVisible(last'.msg))
       => /\ last'.raised = ""
          /\ \E i \in 1..Len(comms'[last'.msg.body.station_name][
                                 last'.msg.body.norad_id].session_params) :
                comms'[last'.msg.body.station_name][
                    last'.msg.body.norad_id].session_params[i].v.end_session_dt
                  = ScannedTrajectory(last'.msg)[
                        Len(ScannedTrajectory(last'.msg))].k]_vars

\* C26: the sessions get_comm_sessions_params returns are those of the
\* prediction in force: every returned session starts and ends at an
\* instant of the trajectory predicted last, none stems from an earlier
\* prediction.
C26_OnlyCurrentSessions ==
    SessionsCompleted
    => \A i \in 1..Len(last.resp[2]) :
          /\ DictHas(ScannedTrajectory(last.msg),
                     last.resp[2][i].v.start_session_dt)
          /\ DictHas(ScannedTrajectory(last.msg),
                     last.resp[2][i].v.end_session_dt)

\* C27: every session get_comm_sessions_params returns is stored under
\* the key equal to its start instant truncated to whole seconds, so
\* sessions whose starts differ by a second or more have different keys.
C27_SessionKeyIsStartSecond ==
    SessionsCompleted
    => \A i \in 1..Len(last.resp[2]) :
          last.resp[2][i].k = TruncSecond(last.resp[2][i].v.start_session_dt)

\* C28: recalculate_uplink_downlink(start), as setup_new_frequencies runs
\* it with start one second before the call, re-evaluates uplink and
\* downlink of every sample at an instant >= start, the earliest one
\* included, keeps azimuth, elevation and visibility of every sample and
\* leaves every sample before start as it was.
C28_RecalculatesFromStart ==
    [][(/\ ~Pending
        /\ last'.msg.request = "setup_new_frequencies"
        /\ NamesRecord(last'.msg)
        /\ Has(last'.msg.body, {"uplink", "downlink"})
        /\ CommSetUp(last'.msg)
        /\ Len(CommDataOf(last'.msg)) > 0
        /\ last'.raised = "")
       => LET before == CommDataOf(last'.msg)
              after == comms'[last'.msg.body.station_name][last'.msg.body.norad_id].comm_data
              start_dt == PlusSeconds(last'.now, -1)
          IN  /\ DictKeys(after) = DictKeys(before)
              /\ \A t \in DictKeys(after) :
                    /\ DictGet(after, t).azimuth = DictGet(before, t).azimuth
                    /\ DictGet(after, t).elevation = DictGet(before, t).elevation
                    /\ DictGet(after, t).visibility = DictGet(before, t).visibility
                    /\ IF t >= start_dt
                       THEN FromCarriers(DictGet(after, t), last'.msg.body.uplink,
                                         last'.msg.body.downlink)
                       ELSE DictGet(after, t) = DictGet(before, t)
      ]_vars

\* C29: a request answered with status 7 leaves the stations, the
\* satellites (frequencies and TLE included) and the comms (comm_data and
\* sessions included) as they were; in particular a failed
\* setup_new_frequencies does not change the satellite's uplink and
\* downlink.
C29_ErrorLeavesRegistry ==
    [][(/\ ~Pending
        /\ handled' = handled + 1
        /\ last'.resp = <<ERROR>>)
       => (/\ stations' = stations
           /\ satellites' = satellites
           /\ comms' = comms)]_vars

\* C30: get_comm_sessions_params, whatever calculate_comm_for_predicted_period
\* and define_session_params it runs, leaves the trajectory of the
\* satellite of the Comm as it was, also when setup_comm has created the
\* Comm anew for a satellite that is already predicted.
C30_SessionsKeepTrajectory ==
    [][(/\ ~Pending
        /\ last'.msg.request = "get_comm_sessions_params"
        /\ NamesRecord(last'.msg)
        /\ CommSetUp(last'.msg)
        /\ CommSatellite(World, last'.msg.body.station_name,
                         last'.msg.body.norad_id).has_pos)
       => CommSatellite(World', last'.msg.body.station_name,
                        last'.msg.body.norad_id).pos_ecef
          = CommSatellite(World, last'.msg.body.station_name,
                          last'.msg.body.norad_id).pos_ecef]_vars

(***************************************************************************)
(* Properties of the frames without a request, of the sessions' fields, of *)
(* the registry maps and of the thread counter.                            *)
(***************************************************************************)
\* C31: a non-empty frame other than "CLOSE" that a handler has read, a
\* JSON object without a "request" key and text that is not JSON included,
\* is taken to handle_request_message, whose result is the one reply of
\* the frame: the handler neither reads the next frame nor ends without
\* replying.
C31_EveryFrameAnswered ==
    [][\A c \in Connections :
        (/\ pc[c] = "decode"
         /\ buf[c].kind \in {"text", "object"}
         /\ pc'[c] # "decode")
        => pc'[c] = "handle"]_vars

\* C32: every session get_comm_sessions_params returns has the azimuth and
\* the elevation of comm_data at start_session_dt as its start values and
\* those of comm_data at end_session_dt as its end values, whatever
\* predictions were made before (its samples being scanned in time order).
C32_SessionEndsFromCommData ==
    SessionsCompleted
    => \A i \in 1..Len(last.resp[2]) :
          LET session == last.resp[2][i].v
              comm_data == CommDataOf(last.msg)
          IN  /\ DictHas(comm_data, session.start_session_dt)
              /\ DictHas(comm_data, session.end_session_dt)
              /\ session.start_azimuth
                    = DictGet(comm_data, session.start_session_dt).azimuth
              /\ session.start_elevation
                    = DictGet(comm_data, session.start_session_dt).elevation
              /\ session.end_azimuth
                    = DictGet(comm_data, session.end_session_dt).azimuth
              /\ session.end_elevation
                    = DictGet(comm_data, session.end_session_dt).elevation

\* C33: the zero-crossing flag of a session is true if and only if two
\* adjacent samples of the session have azimuths more than 330 degrees
\* apart, for all azimuths from 0 up to 360.
C33_FlagIffAdjacentJump ==
    (calc.done /\ "scan" \in DOMAIN calc)
    => (calc.scan.flag
        <=> \E j \in 2..Len(calc.azimuths) :
               Abs(calc.azimuths[j] - calc.azimuths[j - 1]) > 330)

\* C34: get_comm_sessions_params for a Comm whose satellite has no
\* trajectory runs the prediction with the default parameters: the request
\* does not raise, is answered with GetData, and the satellite has a
\* trajectory afterwards.
C34_SessionsPredictImplicitly ==
    [][(/\ ~Pending
        /\ last'.msg.request = "get_comm_sessions_params"
        /\ NamesRecord(last'.msg)
        /\ CommSetUp(last'.msg)
        /\ ~CommSatellite(World, last'.msg.body.station_name,
                          last'.msg.body.norad_id).has_pos)
       => (/\ last'.raised = ""
           /\ last'.resp[1] = GET_DATA
           /\ CommSatellite(World', last'.msg.body.station_name,
                            last'.msg.body.norad_id).has_pos)]_vars

C36_TleSetAfterTleUpdate ==
    (/\ Pending
     /\ last.msg.request = "setup_new_tle_by_file"
     /\ last.resp = <<TLE_UPDATE>>)
    => (/\ SatelliteRegistered(last.msg)
        /\ ~IsNone(RegisteredSatellite(last.msg).line)
        /\ ~IsNone(RegisteredSatellite(last.msg).orbital))

\* C37: get_station_satellites_info for a registered station is answered
\* with GetData and one entry per satellite registered under the station,
\* also when a satellite has no TLE yet.
C37_OneEntryPerSatellite ==
    (/\ Pending
     /\ last.msg.request = "get_station_satellites_info"
     /\ "body" \in DOMAIN last.msg
     /\ "station_name" \in DOMAIN last.msg.body
     /\ last.msg.body.station_name \in DOMAIN stations)
    => (/\ last.raised = ""
        /\ last.resp[1] = GET_DATA
        /\ DOMAIN last.resp[2] = DOMAIN satellites[last.msg.body.station_name])

\* C38: setup_ground_station for a name that is registered already
\* replaces the Station of the name, leaves the name without satellites
\* and without comms, and leaves the Station, the satellites and the comms
\* of every other name as they were.
C38_SetupGroundStationAgain ==
    [][(/\ ~Pending
        /\ last'.msg.request = "setup_ground_station"
        /\ last'.raised = ""
        /\ "station_name" \in DOMAIN last'.msg.body
        /\ last'.msg.body.station_name \in DOMAIN stations)
       => LET body == last'.msg.body
              name == body.station_name
          IN  /\ stations'[name] = GroundStation(body.longitude, body.latitude,
                                                 body.altitude, body.elevation, name)
              /\ satellites'[name] = <<>>
              /\ comms'[name] = <<>>
              /\ DOMAIN stations' = DOMAIN stations
              /\ \A other \in DOMAIN stations \ {name} :
                    /\ stations'[other] = stations[other]
                    /\ satellites'[other] = satellites[other]
                    /\ comms'[other] = comms[other]]_vars

\* the only station ever registered is set up again after a TLE was saved
\* for one of its satellites
C38_Witness ==
    /\ Pending
    /\ last.msg.request = "setup_ground_station"
    /\ last.raised = ""
    /\ DOMAIN stations = {"Samara"}
    /\ satellites["Samara"] = <<>>
    /\ comms["Samara"] = <<>>
    /\ DOMAIN files # {}

\* C39: clear_ground_station_data for a registered name removes every
\* satellite and every Comm of the station, keeps the Station and leaves
\* the satellites and the comms of the other stations as they were; and
\* setup_comm and the point queries for a norad_id that the station does
\* not hold (any longer) fail with NewOrbitronSetupError, status 7.
C39_ClearGroundStationData ==
    [][/\ (/\ ~Pending
           /\ last'.msg.request = "clear_ground_station_data"
           /\ "body" \in DOMAIN last'.msg
           /\ "station_name" \in DOMAIN last'.msg.body
           /\ last'.msg.body.station_name \in DOMAIN stations)
          => LET name == last'.msg.body.station_name
             IN  /\ last'.resp = <<CONFIGURE>>
                 /\ satellites'[name] = <<>>
                 /\ comms'[name] = <<>>
                 /\ stations' = stations
                 /\ DOMAIN satellites' = DOMAIN satellites
                 /\ DOMAIN comms' = DOMAIN comms
                 /\ \A other \in DOMAIN stations \ {name} :
                       /\ satellites'[other] = satellites[other]
                       /\ comms'[other] = comms[other]
       /\ (/\ ~Pending
           /\ last'.msg.request \in {"setup_comm", "get_azimuth_elevation",
                                     "get_frequencies", "get_data"}
           /\ NamesRecord(last'.msg)
           /\ last'.msg.body.station_name \in DOMAIN stations
           /\ last'.msg.body.norad_id
                 \notin DOMAIN satellites[last'.msg.body.station_name])
          => (/\ last'.raised = "NewOrbitronSetupError"
              /\ last'.resp = <<ERROR>>
              /\ registry' = registry)]_vars

\* Samara, for whose satellite a TLE was saved, has been cleared while
\* Moscow keeps its satellite
C39_Witness ==
    /\ Pending
    /\ last.msg.request = "clear_ground_station_data"
    /\ last.raised = ""
    /\ last.msg.body.station_name = "Samara"
    /\ DOMAIN files # {}
    /\ satellites["Samara"] = <<>>
    /\ "Moscow" \in DOMAIN satellites
    /\ satellites["Moscow"] # <<>>

\* C40: the thread counter equals the number of connections that were
\* accepted and whose handler has not finished, whatever the interleaving
\* of accepts, "CLOSE" frames, peer disconnects and handler failures.
C40_CounterIsRunningHandlers ==
    ThreadCounter
        = Cardinality({c \in Connections : pc[c] # "listen" /\ ~Exited(c)})

====
